---- MODULE Spec2Model ----
(***************************************************************************)
(* State-machine model of the three contracts of the lending protocol:     *)
(* UserRegistry (identity), Reputation (vouch escrow, scores) and          *)
(* P2PLending (offers, requests, agreements).  Every external function is  *)
(* one action; a reverted transaction leaves the state unchanged, so each  *)
(* handler is split into an error operator (the message of the first       *)
(* failing require, "" when the call goes through) and the action that is  *)
(* enabled exactly when that operator yields "".                           *)
(*                                                                         *)
(* The ERC20 tokens are OpenZeppelin ERC20s (MockERC20): transfers revert  *)
(* on insufficient balance.  Allowances toward the two contracts are taken *)
(* as granted, as the test setUp does before every call.                   *)
(***************************************************************************)
EXTENDS Integers, Sequences, FiniteSets, TLC

\* ------------------------------------------------------------------ bounds
MaxTime == 4            \* block.timestamp ranges over 0..MaxTime
MaxListings == 1        \* offers plus requests created in one behaviour
MaxDuration == 1        \* durations range over 1..MaxDuration
MaxVouchEvents == 2     \* addVouch calls in one behaviour
InitialMint == 20       \* tokens minted to every user before the run
LoanAmount == 3         \* principal of every offer and request
CollateralAmount == 2   \* collateral of a collateralized offer or request
BigStake == 15          \* the larger of the two stake amounts
MaxPartialValue == 2    \* agreed partial payments range over 1..MaxPartialValue
MaxDirectCalls == 2     \* direct calls of Reputation's gated functions that succeed
WordMax == 1048575      \* largest value of the amount word (uint256 in the contracts,
                        \* narrowed here to 20 bits; checked operations abort above it)

\* ------------------------------------------------------- program constants
BASIS_POINTS == 10000
tenPercentSlashBasis == 1000
RateBPS == 5000         \* interest rate used by the offers of the model

REPUTATION_POINTS_REPAID_ON_TIME_ORIGINAL == 10
REPUTATION_POINTS_REPAID_LATE_GRACE == 3
REPUTATION_POINTS_REPAID_ON_TIME_AFTER_EXTENSION == 7
REPUTATION_POINTS_REPAID_LATE_AFTER_EXTENSION == 2
REPUTATION_POINTS_REPAID_WITH_PARTIAL_AGREEMENT_MET == 8
REPUTATION_POINTS_DEFAULTED == -50
REPUTATION_POINTS_LENT_SUCCESSFULLY_ON_TIME_ORIGINAL == 5
REPUTATION_POINTS_LENT_SUCCESSFULLY_AFTER_MODIFICATION == 3
REPUTATION_POINTS_LENDER_APPROVED_EXTENSION == 2
REPUTATION_POINTS_LENDER_APPROVED_PARTIAL_AGREEMENT == 1
REPUTATION_POINTS_LENDER_REJECTED_MODIFICATION == 0
REPUTATION_POINTS_VOUCH_DEFAULTED_VOUCHER == -20

\* ----------------------------------------------------------------- domains
Users == {"alice", "bob", "carol"}
ZeroAddress == "0x0"
P2PLendingAddress == "P2PLending"
ReputationAddress == "Reputation"
Holders == Users \cup {P2PLendingAddress, ReputationAddress}
Tokens == {"mDAI", "mUSDC"}
\* the account that deploys the contracts, Reputation's first owner
Deployer == "deployer"
\* the names the users register with
SetUpNames == [u \in Users |-> CASE u = "bob" -> "Borrower" [] u = "alice" -> "Lender"
                                 [] OTHER -> "Voucher"]

\* enum PaymentModificationType
ModNone == "None"
DueDateExtension == "DueDateExtension"
PartialPaymentAgreement == "PartialPaymentAgreement"
PaymentModificationType == {ModNone, DueDateExtension, PartialPaymentAgreement}

\* enum LoanStatus
Active == "Active"
Repaid == "Repaid"
Defaulted == "Defaulted"
Cancelled == "Cancelled"
PendingModificationApproval == "PendingModificationApproval"
Active_PartialPaymentAgreed == "Active_PartialPaymentAgreed"
Overdue == "Overdue"
LoanStatus == {Active, Repaid, Defaulted, Cancelled, PendingModificationApproval,
               Active_PartialPaymentAgreed, Overdue}

\* enum PaymentOutcomeType
OutcomeNone == "OutcomeNone"
OnTimeOriginal == "OnTimeOriginal"
LateGraceOriginal == "LateGraceOriginal"
OnTimeExtended == "OnTimeExtended"
LateExtended == "LateExtended"
PartialAgreementMetAndRepaid == "PartialAgreementMetAndRepaid"
OutcomeDefaulted == "OutcomeDefaulted"
PaymentOutcomeType == {OutcomeNone, OnTimeOriginal, LateGraceOriginal, OnTimeExtended,
                       LateExtended, PartialAgreementMetAndRepaid, OutcomeDefaulted}

\* ------------------------------------------------------------------- state
VARIABLES
    now,                        \* block.timestamp
    isUserRegistered,           \* UserRegistry.userProfiles[u].isRegistered
    userNames,                  \* UserRegistry.userProfiles[u].name
    registrationTime,           \* UserRegistry.userProfiles[u].registrationTime
    registeredUsers,            \* UserRegistry.registeredUsers
    totalUsers,                 \* UserRegistry.totalUsers
    p2pLendingContractAddress,  \* Reputation.p2pLendingContractAddress
    owner,                      \* Reputation's Ownable owner
    balances,                   \* balances[token][holder], the ERC20 ledgers
    loanOffers,                 \* P2PLending.loanOffers, in creation order
    loanRequests,               \* P2PLending.loanRequests, in creation order
    loanAgreements,             \* P2PLending.loanAgreements, in creation order
    userReputations,            \* Reputation.userReputations
    activeVouches,              \* Reputation.activeVouches[voucher][borrower]
    userVouchesGiven,           \* Reputation.userVouchesGiven
    userVouchesReceived,        \* Reputation.userVouchesReceived
    events                      \* the log of the latest successful transaction: what
                                \* UserRegistry, Reputation and P2PLending emitted, in order

vars == <<now, isUserRegistered, userNames, registrationTime, registeredUsers, totalUsers,
          p2pLendingContractAddress, owner, balances, loanOffers,
          loanRequests, loanAgreements, userReputations, activeVouches,
          userVouchesGiven, userVouchesReceived, events>>

registryVars == <<isUserRegistered, userNames, registrationTime, registeredUsers, totalUsers>>
authorityVars == <<p2pLendingContractAddress, owner>>

lendingVars == <<loanOffers, loanRequests, loanAgreements>>
vouchVars == <<activeVouches, userVouchesGiven, userVouchesReceived>>

\* ----------------------------------------------------------------- helpers
RECURSIVE SumSeq(_)
SumSeq(s) == IF s = <<>> THEN 0 ELSE Head(s) + SumSeq(Tail(s))

RECURSIVE SumOver(_, _)
\* sum of f[x] over the finite set S
SumOver(S, f) ==
    IF S = {} THEN 0
    ELSE LET x == CHOOSE y \in S : TRUE IN f[x] + SumOver(S \ {x}, f)

\* ERC20: balanceOf
balanceOf(bal, token, holder) == bal[token][holder]

\* ERC20: _transfer / _update (reverts when the sender's balance is short)
TransferOk(bal, token, from, amount) == bal[token][from] >= amount

Transfer(bal, token, from, to, amount) ==
    IF from = to THEN bal
    ELSE [bal EXCEPT ![token][from] = @ - amount, ![token][to] = @ + amount]

\* the zero-initialised Reputation.ReputationProfile of an untouched slot
EmptyProfile ==
    [userAddress |-> ZeroAddress, loansTaken |-> 0, loansGiven |-> 0,
     loansRepaidOnTime |-> 0, loansRepaidLateGrace |-> 0, loansDefaulted |-> 0,
     totalValueBorrowed |-> 0, totalValueLent |-> 0, currentReputationScore |-> 0,
     vouchingStakeAmount |-> 0, timesVouchedForOthers |-> 0,
     timesDefaultedAsVoucher |-> 0, modificationsApprovedByLender |-> 0,
     modificationsRejectedByLender |-> 0]

\* the zero-initialised Reputation.Vouch of an untouched slot
EmptyVouch ==
    [voucher |-> ZeroAddress, borrower |-> ZeroAddress, tokenAddress |-> ZeroAddress,
     stakedAmount |-> 0, isActive |-> FALSE]

\* Reputation._initializeReputationProfileIfNotExists
initializeReputationProfileIfNotExists(reps, user) ==
    IF user \in Users /\ reps[user].userAddress = ZeroAddress /\ isUserRegistered[user]
    THEN [reps EXCEPT ![user] = [EmptyProfile EXCEPT !.userAddress = user]]
    ELSE reps

\* mutant of calculateInterest: the division rounds up
calculateInterest_RoundUp(principalAmount, interestRateBps) ==
    IF principalAmount = 0 \/ interestRateBps = 0 THEN 0
    ELSE (principalAmount * interestRateBps + BASIS_POINTS - 1) \div BASIS_POINTS

\* P2PLending._calculateInterest
calculateInterest(principalAmount, interestRateBps) ==
    IF principalAmount = 0 \/ interestRateBps = 0 THEN 0
    ELSE (principalAmount * interestRateBps) \div BASIS_POINTS

\* P2PLending._calculateTotalDue
calculateTotalDue(agreement) ==
    agreement.principalAmount
        + calculateInterest(agreement.principalAmount, agreement.interestRateBPS)

\* the panic of a checked operation whose result does not fit the word
ArithmeticOverflow == "panic: arithmetic overflow"

\* checked multiplication a * b: the product does not fit the word (decided
\* without forming the product)
mulOverflows(a, b) == a # 0 /\ b > WordMax \div a

\* P2PLending._calculateTotalDue: the panic of its checked multiplication or of
\* its checked addition, "" when the total due is computed
calculateTotalDueError(agreement) ==
    IF agreement.principalAmount = 0 \/ agreement.interestRateBPS = 0 THEN ""
    ELSE IF mulOverflows(agreement.principalAmount, agreement.interestRateBPS)
        THEN ArithmeticOverflow
    ELSE IF calculateInterest(agreement.principalAmount, agreement.interestRateBPS)
                > WordMax - agreement.principalAmount
        THEN ArithmeticOverflow
    ELSE ""

\* ------------------------------------------------------------------- Init
\* The deployed system as the test setUp leaves it: the three users are
\* registered, the lending authority is configured, every user holds
\* InitialMint of each token, and nothing has been offered, requested or vouched.
\* ------------------------------------------------ events
\* One record per emitted event; name is the event's name, the other fields
\* its arguments.  Token contracts' own Transfer and Approval events are not
\* part of the log modelled here.
UserRegistered(userAddress, name, timestamp) ==
    [name |-> "UserRegistered", userAddress |-> userAddress, userName |-> name,
     timestamp |-> timestamp]

UserProfileUpdated(userAddress, newName) ==
    [name |-> "UserProfileUpdated", userAddress |-> userAddress, newName |-> newName]

ReputationUpdated(user, newScore, reason) ==
    [name |-> "ReputationUpdated", user |-> user, newScore |-> newScore, reason |-> reason]

LoanTermOutcomeRecorded(agreementId, user, reputationChange, reason, outcomeType) ==
    [name |-> "LoanTermOutcomeRecorded", agreementId |-> agreementId, user |-> user,
     reputationChange |-> reputationChange, reason |-> reason, outcomeType |-> outcomeType]

VouchAdded(voucher, borrower, token, amount) ==
    [name |-> "VouchAdded", voucher |-> voucher, borrower |-> borrower, token |-> token,
     amount |-> amount]

VouchRemoved(voucher, borrower, returnedAmount) ==
    [name |-> "VouchRemoved", voucher |-> voucher, borrower |-> borrower,
     returnedAmount |-> returnedAmount]

VouchSlashed(voucher, defaultingBorrower, slashedAmount, slashedToLender) ==
    [name |-> "VouchSlashed", voucher |-> voucher, defaultingBorrower |-> defaultingBorrower,
     slashedAmount |-> slashedAmount, slashedToLender |-> slashedToLender]

LoanOfferCreated(offerId, lender, amount, token, interestRateBPS, durationSeconds) ==
    [name |-> "LoanOfferCreated", offerId |-> offerId, lender |-> lender, amount |-> amount,
     token |-> token, interestRateBPS |-> interestRateBPS, durationSeconds |-> durationSeconds]

LoanRequestCreated(requestId, borrower, amount, token, proposedInterestRateBPS, proposedDurationSeconds) ==
    [name |-> "LoanRequestCreated", requestId |-> requestId, borrower |-> borrower,
     amount |-> amount, token |-> token, proposedInterestRateBPS |-> proposedInterestRateBPS,
     proposedDurationSeconds |-> proposedDurationSeconds]

\* LoanAgreementCreated carries the fields of the agreement just stored
LoanAgreementCreated(agreement) ==
    [name |-> "LoanAgreementCreated", agreementId |-> agreement.id,
     lender |-> agreement.lender, borrower |-> agreement.borrower,
     amount |-> agreement.principalAmount, token |-> agreement.loanToken,
     interestRateBPS |-> agreement.interestRateBPS,
     durationSeconds |-> agreement.durationSeconds, startTime |-> agreement.startTime,
     dueDate |-> agreement.dueDate, collateralAmount |-> agreement.collateralAmount,
     collateralToken |-> agreement.collateralToken]

LoanRepayment(agreementId, payer, amountPaidThisTime, totalPaid, remainingBalance, newStatus) ==
    [name |-> "LoanRepayment", agreementId |-> agreementId, payer |-> payer,
     amountPaidThisTime |-> amountPaidThisTime, totalPaid |-> totalPaid,
     remainingBalance |-> remainingBalance, newStatus |-> newStatus]

LoanAgreementRepaid(agreementId) ==
    [name |-> "LoanAgreementRepaid", agreementId |-> agreementId]

LoanAgreementDefaulted(agreementId) ==
    [name |-> "LoanAgreementDefaulted", agreementId |-> agreementId]

PaymentModificationRequested(agreementId, borrower, modificationType, value) ==
    [name |-> "PaymentModificationRequested", agreementId |-> agreementId,
     borrower |-> borrower, modificationType |-> modificationType, value |-> value]

PaymentModificationResponded(agreementId, lender, approved, modificationType, value) ==
    [name |-> "PaymentModificationResponded", agreementId |-> agreementId,
     lender |-> lender, approved |-> approved, modificationType |-> modificationType,
     value |-> value]

Init ==
    /\ now = 0
    /\ isUserRegistered = [u \in Users |-> TRUE]
    /\ userNames = SetUpNames
    /\ registrationTime = [u \in Users |-> 0]
    /\ registeredUsers = <<"bob", "alice", "carol">>
    /\ totalUsers = 3
    /\ p2pLendingContractAddress = P2PLendingAddress
    /\ owner = Deployer
    /\ balances = [t \in Tokens |-> [h \in Holders |-> IF h \in Users THEN InitialMint ELSE 0]]
    /\ loanOffers = <<>>
    /\ loanRequests = <<>>
    /\ loanAgreements = <<>>
    /\ userReputations = [u \in Users |-> EmptyProfile]
    /\ activeVouches = [v \in Users |-> [b \in Users |-> EmptyVouch]]
    /\ userVouchesGiven = [u \in Users |-> <<>>]
    /\ userVouchesReceived = [u \in Users |-> <<>>]
    /\ events = <<>>

\* the block timestamp advances (block-level, non-decreasing)
Tick ==
    /\ now < MaxTime
    /\ now' = now + 1
    /\ UNCHANGED <<registryVars, authorityVars, balances, lendingVars,
                   userReputations, vouchVars, events>>

\* ------------------------------------------------------------ UserRegistry
\* mutant of registerUserError: a registered address may register again
registerUserError_Again(caller, name) ==
    IF ~(Len(name) > 0) THEN "UserRegistry: Name cannot be empty"
    ELSE IF ~(Len(name) <= 50) THEN "UserRegistry: Name too long"
    ELSE ""

\* registerUser: message of the first failing require
registerUserError(caller, name) ==
    IF isUserRegistered[caller] THEN "UserRegistry: Address already registered"
    ELSE IF ~(Len(name) > 0) THEN "UserRegistry: Name cannot be empty"
    ELSE IF ~(Len(name) <= 50) THEN "UserRegistry: Name too long"
    ELSE ""

registerUser(caller, name) ==
    /\ registerUserError(caller, name) = ""
    /\ isUserRegistered' = [isUserRegistered EXCEPT ![caller] = TRUE]
    /\ userNames' = [userNames EXCEPT ![caller] = name]
    /\ registrationTime' = [registrationTime EXCEPT ![caller] = now]
    /\ registeredUsers' = Append(registeredUsers, caller)
    /\ totalUsers' = totalUsers + 1
    /\ events' = <<UserRegistered(caller, name, now)>>
    /\ UNCHANGED <<now, authorityVars, balances, lendingVars, userReputations, vouchVars>>

\* updateProfile: message of the first failing require
updateProfileError(caller, newName) ==
    IF ~isUserRegistered[caller] THEN "UserRegistry: User not registered"
    ELSE IF ~(Len(newName) > 0) THEN "UserRegistry: Name cannot be empty"
    ELSE IF ~(Len(newName) <= 50) THEN "UserRegistry: Name too long"
    ELSE ""

updateProfile(caller, newName) ==
    /\ updateProfileError(caller, newName) = ""
    /\ userNames' = [userNames EXCEPT ![caller] = newName]
    /\ events' = <<UserProfileUpdated(caller, newName)>>
    /\ UNCHANGED <<now, isUserRegistered, registrationTime, registeredUsers, totalUsers,
                   authorityVars, balances, lendingVars, userReputations, vouchVars>>

\* ------------------------------------------------- P2PLending: formation
\* createLoanOffer: message of the first failing require, "" when none fails
createLoanOfferError(caller, amount, token, durationSeconds, collAmount, collToken) ==
    IF ~isUserRegistered[caller] THEN "P2PL: User not World ID verified"
    ELSE IF ~(amount > 0) THEN "P2PL: Offer amount must be > 0"
    ELSE IF token = ZeroAddress THEN "P2PL: Invalid loan token"
    ELSE IF ~(durationSeconds > 0) THEN "P2PL: Duration must be > 0"
    ELSE IF collAmount > 0 /\ collToken = ZeroAddress
        THEN "P2PL: Invalid collateral token for non-zero amount"
    ELSE IF ~(collAmount > 0) /\ collToken # ZeroAddress
        THEN "P2PL: Collateral token must be zero for zero amount"
    ELSE IF ~(balanceOf(balances, token, caller) >= amount)
        THEN "P2PL: Insufficient balance for offer"
    ELSE ""

createLoanOffer(caller, amount, token, rateBPS, durationSeconds, collAmount, collToken) ==
    /\ Len(loanOffers) + Len(loanRequests) < MaxListings
    /\ createLoanOfferError(caller, amount, token, durationSeconds, collAmount, collToken) = ""
    /\ loanOffers' = Append(loanOffers,
            [id |-> Len(loanOffers) + 1, lender |-> caller, amount |-> amount,
             token |-> token, interestRateBPS |-> rateBPS,
             durationSeconds |-> durationSeconds,
             requiredCollateralAmount |-> collAmount, collateralToken |-> collToken,
             isActive |-> TRUE, isFulfilled |-> FALSE])
    /\ balances' = Transfer(balances, token, caller, P2PLendingAddress, amount)
    /\ events' = <<LoanOfferCreated(Len(loanOffers) + 1, caller, amount, token, rateBPS,
                                    durationSeconds)>>
    /\ UNCHANGED <<now, registryVars, authorityVars, loanRequests,
                   loanAgreements, userReputations, vouchVars>>

\* createLoanRequest: message of the first failing require
createLoanRequestError(caller, amount, token, durationSeconds, collAmount, collToken) ==
    IF ~isUserRegistered[caller] THEN "P2PL: User not World ID verified"
    ELSE IF ~(amount > 0) THEN "P2PL: Request amount must be > 0"
    ELSE IF token = ZeroAddress THEN "P2PL: Invalid loan token"
    ELSE IF ~(durationSeconds > 0) THEN "P2PL: Duration must be > 0"
    ELSE IF collAmount > 0 /\ collToken = ZeroAddress
        THEN "P2PL: Invalid collateral token for non-zero amount"
    ELSE IF collAmount > 0 /\ ~(balanceOf(balances, collToken, caller) >= collAmount)
        THEN "P2PL: Insufficient collateral balance for request"
    ELSE IF ~(collAmount > 0) /\ collToken # ZeroAddress
        THEN "P2PL: Collateral token must be zero for zero amount"
    ELSE ""

createLoanRequest(caller, amount, token, rateBPS, durationSeconds, collAmount, collToken) ==
    /\ Len(loanOffers) + Len(loanRequests) < MaxListings
    /\ createLoanRequestError(caller, amount, token, durationSeconds, collAmount, collToken) = ""
    /\ loanRequests' = Append(loanRequests,
            [id |-> Len(loanRequests) + 1, borrower |-> caller, amount |-> amount,
             token |-> token, proposedInterestRateBPS |-> rateBPS,
             proposedDurationSeconds |-> durationSeconds,
             offeredCollateralAmount |-> collAmount, collateralToken |-> collToken,
             isActive |-> TRUE, isFulfilled |-> FALSE])
    /\ events' = <<LoanRequestCreated(Len(loanRequests) + 1, caller, amount, token, rateBPS,
                                      durationSeconds)>>
    /\ UNCHANGED <<now, registryVars, authorityVars, balances, loanOffers,
                   loanAgreements, userReputations, vouchVars>>

\* the LoanAgreement struct literal shared by acceptLoanOffer and fundLoanRequest
LoanAgreementStruct(id, offerId, requestId, lender, borrower, amount, token, rateBPS, durationSeconds, collAmount, collToken, startTime) ==
    [id |-> id,
     originalOfferId |-> offerId, originalRequestId |-> requestId,
     lender |-> lender, borrower |-> borrower,
     principalAmount |-> amount, loanToken |-> token, interestRateBPS |-> rateBPS,
     durationSeconds |-> durationSeconds,
     collateralAmount |-> collAmount, collateralToken |-> collToken,
     startTime |-> startTime, dueDate |-> startTime + durationSeconds, amountPaid |-> 0,
     status |-> Active,
     requestedModificationType |-> DueDateExtension,
     requestedModificationValue |-> 0,
     modificationApprovedByLender |-> FALSE]

NewAgreement(offerId, requestId, lender, borrower, amount, token, rateBPS, durationSeconds, collAmount, collToken) ==
    LoanAgreementStruct(Len(loanAgreements) + 1, offerId, requestId, lender, borrower,
                        amount, token, rateBPS, durationSeconds, collAmount, collToken, now)

\* mutant of acceptCollateralPulled: the collateral is never pulled in
acceptCollateralPulled_Skipped(bal, offer, caller, collAmount, collToken) == bal

\* acceptLoanOffer: the ledgers after the collateral has been pulled from the borrower
acceptCollateralPulled(bal, offer, caller, collAmount, collToken) ==
    IF offer.requiredCollateralAmount > 0
    THEN Transfer(bal, collToken, caller, P2PLendingAddress, collAmount)
    ELSE bal

\* acceptLoanOffer: message of the first failing require or transfer
\* mutant of acceptLoanOfferError: the lender may accept the lender's own offer
acceptLoanOfferError_OwnOffer(caller, offerId, collAmount, collToken) ==
    IF ~isUserRegistered[caller] THEN "P2PL: User not World ID verified"
    ELSE IF offerId \notin DOMAIN loanOffers THEN "P2PL: Offer does not exist"
    ELSE LET offer == loanOffers[offerId] IN
    IF ~offer.isActive THEN "P2PL: Offer not active"
    ELSE IF offer.isFulfilled THEN "P2PL: Offer already fulfilled"
    ELSE IF offer.requiredCollateralAmount > 0 /\ collToken # offer.collateralToken
        THEN "P2PL: Collateral token mismatch"
    ELSE IF offer.requiredCollateralAmount > 0 /\ collAmount # offer.requiredCollateralAmount
        THEN "P2PL: Collateral amount mismatch"
    ELSE IF offer.requiredCollateralAmount > 0
            /\ ~(balanceOf(balances, collToken, caller) >= collAmount)
        THEN "P2PL: Insufficient collateral balance"
    ELSE IF ~(offer.requiredCollateralAmount > 0) /\ (collAmount # 0 \/ collToken # ZeroAddress)
        THEN "P2PL: Collateral not required by offer"
    ELSE IF ~TransferOk(acceptCollateralPulled(balances, offer, caller, collAmount, collToken),
                        offer.token, P2PLendingAddress, offer.amount)
        THEN "ERC20: transfer amount exceeds balance"
    ELSE ""

acceptLoanOfferError(caller, offerId, collAmount, collToken) ==
    IF ~isUserRegistered[caller] THEN "P2PL: User not World ID verified"
    ELSE IF offerId \notin DOMAIN loanOffers THEN "P2PL: Offer does not exist"
    ELSE LET offer == loanOffers[offerId] IN
    IF ~offer.isActive THEN "P2PL: Offer not active"
    ELSE IF offer.isFulfilled THEN "P2PL: Offer already fulfilled"
    ELSE IF offer.lender = caller THEN "P2PL: Cannot accept own offer"
    ELSE IF offer.requiredCollateralAmount > 0 /\ collToken # offer.collateralToken
        THEN "P2PL: Collateral token mismatch"
    ELSE IF offer.requiredCollateralAmount > 0 /\ collAmount # offer.requiredCollateralAmount
        THEN "P2PL: Collateral amount mismatch"
    ELSE IF offer.requiredCollateralAmount > 0
            /\ ~(balanceOf(balances, collToken, caller) >= collAmount)
        THEN "P2PL: Insufficient collateral balance"
    ELSE IF ~(offer.requiredCollateralAmount > 0) /\ (collAmount # 0 \/ collToken # ZeroAddress)
        THEN "P2PL: Collateral not required by offer"
    ELSE IF ~TransferOk(acceptCollateralPulled(balances, offer, caller, collAmount, collToken),
                        offer.token, P2PLendingAddress, offer.amount)
        THEN "ERC20: transfer amount exceeds balance"
    ELSE ""

acceptLoanOffer(caller, offerId, collAmount, collToken) ==
    /\ acceptLoanOfferError(caller, offerId, collAmount, collToken) = ""
    /\ LET offer == loanOffers[offerId]
           bal1 == acceptCollateralPulled(balances, offer, caller, collAmount, collToken)
       IN /\ balances' = Transfer(bal1, offer.token, P2PLendingAddress, caller, offer.amount)
          /\ loanOffers' = [loanOffers EXCEPT ![offerId].isFulfilled = TRUE,
                                              ![offerId].isActive = FALSE]
          /\ loanAgreements' = Append(loanAgreements,
                NewAgreement(offerId, 0, offer.lender, caller, offer.amount, offer.token,
                             offer.interestRateBPS, offer.durationSeconds,
                             collAmount, collToken))
          /\ events' = <<LoanAgreementCreated(
                NewAgreement(offerId, 0, offer.lender, caller, offer.amount, offer.token,
                             offer.interestRateBPS, offer.durationSeconds,
                             collAmount, collToken))>>
    /\ UNCHANGED <<now, registryVars, authorityVars, loanRequests,
                   userReputations, vouchVars>>

\* mutant of fundLoanRequestError: a request can be funded again
fundLoanRequestError_Reusable(caller, requestId) ==
    IF ~isUserRegistered[caller] THEN "P2PL: User not World ID verified"
    ELSE IF requestId \notin DOMAIN loanRequests THEN "P2PL: Request does not exist"
    ELSE LET request == loanRequests[requestId] IN
    IF request.borrower = caller THEN "P2PL: Cannot fund own request"
    ELSE IF ~(balanceOf(balances, request.token, caller) >= request.amount)
        THEN "P2PL: Insufficient balance to fund"
    ELSE LET bal1 == Transfer(balances, request.token, caller, request.borrower, request.amount) IN
    IF request.offeredCollateralAmount > 0
       /\ ~TransferOk(bal1, request.collateralToken, request.borrower,
                      request.offeredCollateralAmount)
        THEN "ERC20: transfer amount exceeds balance"
    ELSE ""

\* fundLoanRequest: message of the first failing require or transfer
fundLoanRequestError(caller, requestId) ==
    IF ~isUserRegistered[caller] THEN "P2PL: User not World ID verified"
    ELSE IF requestId \notin DOMAIN loanRequests THEN "P2PL: Request does not exist"
    ELSE LET request == loanRequests[requestId] IN
    IF ~request.isActive THEN "P2PL: Request not active"
    ELSE IF request.isFulfilled THEN "P2PL: Request already fulfilled"
    ELSE IF request.borrower = caller THEN "P2PL: Cannot fund own request"
    ELSE IF ~(balanceOf(balances, request.token, caller) >= request.amount)
        THEN "P2PL: Insufficient balance to fund"
    ELSE LET bal1 == Transfer(balances, request.token, caller, request.borrower, request.amount) IN
    IF request.offeredCollateralAmount > 0
       /\ ~TransferOk(bal1, request.collateralToken, request.borrower,
                      request.offeredCollateralAmount)
        THEN "ERC20: transfer amount exceeds balance"
    ELSE ""

\* mutant of fundLoanRequest: the principal goes into P2PLending's custody
fundLoanRequest_ViaCustody(caller, requestId) ==
    /\ fundLoanRequestError(caller, requestId) = ""
    /\ LET request == loanRequests[requestId]
           bal1 == Transfer(balances, request.token, caller, P2PLendingAddress, request.amount)
       IN /\ balances' = IF request.offeredCollateralAmount > 0
                         THEN Transfer(bal1, request.collateralToken, request.borrower,
                                       P2PLendingAddress, request.offeredCollateralAmount)
                         ELSE bal1
          /\ loanRequests' = [loanRequests EXCEPT ![requestId].isActive = FALSE,
                                                  ![requestId].isFulfilled = TRUE]
          /\ loanAgreements' = Append(loanAgreements,
                NewAgreement(0, requestId, caller, request.borrower, request.amount,
                             request.token, request.proposedInterestRateBPS,
                             request.proposedDurationSeconds,
                             request.offeredCollateralAmount, request.collateralToken))
          /\ events' = <<LoanAgreementCreated(
                NewAgreement(0, requestId, caller, request.borrower, request.amount,
                             request.token, request.proposedInterestRateBPS,
                             request.proposedDurationSeconds,
                             request.offeredCollateralAmount, request.collateralToken))>>
    /\ UNCHANGED <<now, registryVars, authorityVars, loanOffers,
                   userReputations, vouchVars>>

fundLoanRequest(caller, requestId) ==
    /\ fundLoanRequestError(caller, requestId) = ""
    /\ LET request == loanRequests[requestId]
           bal1 == Transfer(balances, request.token, caller, request.borrower, request.amount)
       IN /\ balances' = IF request.offeredCollateralAmount > 0
                         THEN Transfer(bal1, request.collateralToken, request.borrower,
                                       P2PLendingAddress, request.offeredCollateralAmount)
                         ELSE bal1
          /\ loanRequests' = [loanRequests EXCEPT ![requestId].isActive = FALSE,
                                                  ![requestId].isFulfilled = TRUE]
          /\ loanAgreements' = Append(loanAgreements,
                NewAgreement(0, requestId, caller, request.borrower, request.amount,
                             request.token, request.proposedInterestRateBPS,
                             request.proposedDurationSeconds,
                             request.offeredCollateralAmount, request.collateralToken))
          /\ events' = <<LoanAgreementCreated(
                NewAgreement(0, requestId, caller, request.borrower, request.amount,
                             request.token, request.proposedInterestRateBPS,
                             request.proposedDurationSeconds,
                             request.offeredCollateralAmount, request.collateralToken))>>
    /\ UNCHANGED <<now, registryVars, authorityVars, loanOffers,
                   userReputations, vouchVars>>

\* ------------------------------------------------------------- Reputation
\* mutant of onlyP2PLendingContract: the modifier lets every caller through
onlyP2PLendingContract_Open(sender) == TRUE

\* modifier onlyP2PLendingContract
onlyP2PLendingContract(sender) == sender = p2pLendingContractAddress

\* recordLoanPaymentOutcome: the borrower's score change of each outcome
borrowerRepChange(outcome) ==
    CASE outcome = OnTimeOriginal -> REPUTATION_POINTS_REPAID_ON_TIME_ORIGINAL
      [] outcome = LateGraceOriginal -> REPUTATION_POINTS_REPAID_LATE_GRACE
      [] outcome = OnTimeExtended -> REPUTATION_POINTS_REPAID_ON_TIME_AFTER_EXTENSION
      [] outcome = LateExtended -> REPUTATION_POINTS_REPAID_LATE_AFTER_EXTENSION
      [] outcome = PartialAgreementMetAndRepaid
            -> REPUTATION_POINTS_REPAID_WITH_PARTIAL_AGREEMENT_MET
      [] OTHER -> 0

\* mutant of lenderRepChange: the lender gets the base points only
lenderRepChange_BaseOnly(outcome, modificationTypeUsed, lenderApprovedRequest) ==
    CASE outcome = OnTimeOriginal -> REPUTATION_POINTS_LENT_SUCCESSFULLY_ON_TIME_ORIGINAL
      [] outcome \in {LateGraceOriginal, OnTimeExtended, LateExtended,
                      PartialAgreementMetAndRepaid}
            -> REPUTATION_POINTS_LENT_SUCCESSFULLY_AFTER_MODIFICATION
      [] OTHER -> 0

\* recordLoanPaymentOutcome: the lender's score change, base plus add-on
lenderRepChange(outcome, modificationTypeUsed, lenderApprovedRequest) ==
    LET base == CASE outcome = OnTimeOriginal
                        -> REPUTATION_POINTS_LENT_SUCCESSFULLY_ON_TIME_ORIGINAL
                  [] outcome \in {LateGraceOriginal, OnTimeExtended, LateExtended,
                                  PartialAgreementMetAndRepaid}
                        -> REPUTATION_POINTS_LENT_SUCCESSFULLY_AFTER_MODIFICATION
                  [] OTHER -> 0
        addOn == IF lenderApprovedRequest
                 THEN CASE modificationTypeUsed = DueDateExtension
                                -> REPUTATION_POINTS_LENDER_APPROVED_EXTENSION
                        [] modificationTypeUsed = PartialPaymentAgreement
                                -> REPUTATION_POINTS_LENDER_APPROVED_PARTIAL_AGREEMENT
                        [] OTHER -> 0
                 ELSE IF modificationTypeUsed # ModNone
                 THEN REPUTATION_POINTS_LENDER_REJECTED_MODIFICATION
                 ELSE 0
    IN base + addOn

\* mutant of recordLoanPaymentOutcome: the lender's loansGiven is not counted
recordLoanPaymentOutcome_LenderNotCounted(reps, borrower, lender, principalAmount, outcome, modificationTypeUsed, lenderApprovedRequest) ==
    LET r0 == initializeReputationProfileIfNotExists(
                  initializeReputationProfileIfNotExists(reps, borrower), lender)
        r1 == [r0 EXCEPT ![borrower].loansTaken = @ + 1,
                         ![borrower].totalValueBorrowed = @ + principalAmount]
        r2 == IF outcome \in {OnTimeOriginal, OnTimeExtended, PartialAgreementMetAndRepaid}
              THEN [r1 EXCEPT ![borrower].loansRepaidOnTime = @ + 1]
              ELSE IF outcome \in {LateGraceOriginal, LateExtended}
              THEN [r1 EXCEPT ![borrower].loansRepaidLateGrace = @ + 1]
              ELSE r1
        r3 == [r2 EXCEPT ![borrower].currentReputationScore = @ + borrowerRepChange(outcome)]
        r4 == IF lenderApprovedRequest
              THEN [r3 EXCEPT ![lender].modificationsApprovedByLender = @ + 1]
              ELSE IF modificationTypeUsed # ModNone
              THEN [r3 EXCEPT ![lender].modificationsRejectedByLender = @ + 1]
              ELSE r3
        r5 == [r4 EXCEPT ![lender].totalValueLent = @ + principalAmount]
    IN [r5 EXCEPT ![lender].currentReputationScore =
                        @ + lenderRepChange(outcome, modificationTypeUsed, lenderApprovedRequest)]

\* recordLoanPaymentOutcome: the profiles after the call
recordLoanPaymentOutcome(reps, borrower, lender, principalAmount, outcome, modificationTypeUsed, lenderApprovedRequest) ==
    LET r0 == initializeReputationProfileIfNotExists(
                  initializeReputationProfileIfNotExists(reps, borrower), lender)
        r1 == [r0 EXCEPT ![borrower].loansTaken = @ + 1,
                         ![borrower].totalValueBorrowed = @ + principalAmount]
        r2 == IF outcome \in {OnTimeOriginal, OnTimeExtended, PartialAgreementMetAndRepaid}
              THEN [r1 EXCEPT ![borrower].loansRepaidOnTime = @ + 1]
              ELSE IF outcome \in {LateGraceOriginal, LateExtended}
              THEN [r1 EXCEPT ![borrower].loansRepaidLateGrace = @ + 1]
              ELSE r1
        r3 == [r2 EXCEPT ![borrower].currentReputationScore = @ + borrowerRepChange(outcome)]
        r4 == IF lenderApprovedRequest
              THEN [r3 EXCEPT ![lender].modificationsApprovedByLender = @ + 1]
              ELSE IF modificationTypeUsed # ModNone
              THEN [r3 EXCEPT ![lender].modificationsRejectedByLender = @ + 1]
              ELSE r3
        r5 == [r4 EXCEPT ![lender].loansGiven = @ + 1,
                         ![lender].totalValueLent = @ + principalAmount]
    IN [r5 EXCEPT ![lender].currentReputationScore =
                        @ + lenderRepChange(outcome, modificationTypeUsed, lenderApprovedRequest)]

\* recordLoanPaymentOutcome: the borrower's reason string of each outcome
borrowerReason(outcome) ==
    CASE outcome = OnTimeOriginal -> "Loan repaid on time (original terms)"
      [] outcome = LateGraceOriginal -> "Loan repaid late (grace, original terms)"
      [] outcome = OnTimeExtended -> "Loan repaid on time (after extension)"
      [] outcome = LateExtended -> "Loan repaid late (after extension)"
      [] outcome = PartialAgreementMetAndRepaid
            -> "Loan repaid after meeting partial payment agreement"
      [] OTHER -> "Loan outcome processed"

\* recordLoanPaymentOutcome: the lender's reason string chosen with the base points
lenderReason(outcome) ==
    CASE outcome = OnTimeOriginal -> "Loan lent and repaid on time (original terms)"
      [] outcome = LateGraceOriginal -> "Loan lent and repaid (late grace)"
      [] outcome = OnTimeExtended -> "Loan lent and repaid (on time after extension)"
      [] outcome = LateExtended -> "Loan lent and repaid (late after extension)"
      [] outcome = PartialAgreementMetAndRepaid
            -> "Loan lent and repaid (after partial payment agreement)"
      [] OTHER -> "Loan outcome processed for lender"

\* recordLoanPaymentOutcome: the flag that switches the lender's reason
modificationSpecificPointsInvolved(outcome, modificationTypeUsed, lenderApprovedRequest) ==
    LET change == lenderRepChange(outcome, modificationTypeUsed, lenderApprovedRequest)
        afterMod == REPUTATION_POINTS_LENT_SUCCESSFULLY_AFTER_MODIFICATION
        onTime == REPUTATION_POINTS_LENT_SUCCESSFULLY_ON_TIME_ORIGINAL
        byExtension ==
            IF modificationTypeUsed = DueDateExtension
               /\ change # afterMod + REPUTATION_POINTS_LENDER_APPROVED_EXTENSION
               /\ change # onTime + REPUTATION_POINTS_LENDER_APPROVED_EXTENSION
            THEN FALSE
            ELSE modificationTypeUsed = DueDateExtension
                 /\ REPUTATION_POINTS_LENDER_APPROVED_EXTENSION # 0
        byPartial ==
            IF modificationTypeUsed = PartialPaymentAgreement
               /\ change # afterMod + REPUTATION_POINTS_LENDER_APPROVED_PARTIAL_AGREEMENT
               /\ change # onTime + REPUTATION_POINTS_LENDER_APPROVED_PARTIAL_AGREEMENT
            THEN FALSE
            ELSE modificationTypeUsed = PartialPaymentAgreement
                 /\ REPUTATION_POINTS_LENDER_APPROVED_PARTIAL_AGREEMENT # 0
    IN IF lenderApprovedRequest THEN byExtension \/ byPartial
       ELSE IF modificationTypeUsed # ModNone
       THEN /\ REPUTATION_POINTS_LENDER_REJECTED_MODIFICATION # 0
            /\ \/ change = onTime + REPUTATION_POINTS_LENDER_REJECTED_MODIFICATION
               \/ change = afterMod + REPUTATION_POINTS_LENDER_REJECTED_MODIFICATION
       ELSE FALSE

\* mutant of finalLenderReason: the base reason is always kept
finalLenderReason_AlwaysBase(outcome, modificationTypeUsed, lenderApprovedRequest) ==
    lenderReason(outcome)

\* recordLoanPaymentOutcome: the reason the lender's events carry
finalLenderReason(outcome, modificationTypeUsed, lenderApprovedRequest) ==
    IF modificationSpecificPointsInvolved(outcome, modificationTypeUsed, lenderApprovedRequest)
    THEN "Loan outcome and modification handling for lender"
    ELSE lenderReason(outcome)

\* mutant of recordLoanPaymentOutcomeEvents: LoanTermOutcomeRecorded comes first
recordLoanPaymentOutcomeEvents_Swapped(reps, agreementId, borrower, lender, principalAmount, outcome, modificationTypeUsed, lenderApprovedRequest) ==
    LET r0 == initializeReputationProfileIfNotExists(
                  initializeReputationProfileIfNotExists(reps, borrower), lender)
        after == recordLoanPaymentOutcome(reps, borrower, lender, principalAmount, outcome,
                                          modificationTypeUsed, lenderApprovedRequest)
        bChange == borrowerRepChange(outcome)
        lChange == lenderRepChange(outcome, modificationTypeUsed, lenderApprovedRequest)
        lReason == finalLenderReason(outcome, modificationTypeUsed, lenderApprovedRequest)
    IN (IF bChange # 0
        THEN <<LoanTermOutcomeRecorded(agreementId, borrower, bChange,
                                       borrowerReason(outcome), outcome),
               ReputationUpdated(borrower, r0[borrower].currentReputationScore + bChange,
                                 borrowerReason(outcome))>>
        ELSE <<>>)
       \o
       (IF lChange # 0
        THEN <<LoanTermOutcomeRecorded(agreementId, lender, lChange, lReason, outcome),
               ReputationUpdated(lender, after[lender].currentReputationScore, lReason)>>
        ELSE <<>>)

\* recordLoanPaymentOutcome: the events it emits, in order
recordLoanPaymentOutcomeEvents(reps, agreementId, borrower, lender, principalAmount, outcome, modificationTypeUsed, lenderApprovedRequest) ==
    LET r0 == initializeReputationProfileIfNotExists(
                  initializeReputationProfileIfNotExists(reps, borrower), lender)
        after == recordLoanPaymentOutcome(reps, borrower, lender, principalAmount, outcome,
                                          modificationTypeUsed, lenderApprovedRequest)
        bChange == borrowerRepChange(outcome)
        lChange == lenderRepChange(outcome, modificationTypeUsed, lenderApprovedRequest)
        lReason == finalLenderReason(outcome, modificationTypeUsed, lenderApprovedRequest)
    IN (IF bChange # 0
        THEN <<ReputationUpdated(borrower, r0[borrower].currentReputationScore + bChange,
                                 borrowerReason(outcome)),
               LoanTermOutcomeRecorded(agreementId, borrower, bChange,
                                       borrowerReason(outcome), outcome)>>
        ELSE <<>>)
       \o
       (IF lChange # 0
        THEN <<ReputationUpdated(lender, after[lender].currentReputationScore, lReason),
               LoanTermOutcomeRecorded(agreementId, lender, lChange, lReason, outcome)>>
        ELSE <<>>)

\* updateReputationOnLoanDefault: the profiles after the call
\* mutant of updateReputationOnLoanDefault: loansTaken is not counted
updateReputationOnLoanDefault_NotTaken(reps, borrower) ==
    LET r0 == initializeReputationProfileIfNotExists(reps, borrower)
    IN [r0 EXCEPT ![borrower].loansDefaulted = @ + 1,
                  ![borrower].currentReputationScore = @ + REPUTATION_POINTS_DEFAULTED]

updateReputationOnLoanDefault(reps, borrower) ==
    LET r0 == initializeReputationProfileIfNotExists(reps, borrower)
    IN [r0 EXCEPT ![borrower].loansTaken = @ + 1,
                  ![borrower].loansDefaulted = @ + 1,
                  ![borrower].currentReputationScore = @ + REPUTATION_POINTS_DEFAULTED]

\* updateReputationOnLoanDefault: the event it emits
updateReputationOnLoanDefaultEvents(reps, borrower) ==
    <<ReputationUpdated(borrower,
          updateReputationOnLoanDefault(reps, borrower)[borrower].currentReputationScore,
          "Loan defaulted")>>

\* mutant of addVouchError: an active vouch for the pair does not stop a new one
addVouchError_Overwrites(caller, borrowerToVouchFor, amountToStake, tokenAddress) ==
    IF ~isUserRegistered[caller] THEN "Reputation: User not World ID verified"
    ELSE IF borrowerToVouchFor = caller THEN "Cannot vouch for yourself"
    ELSE IF ~isUserRegistered[borrowerToVouchFor] THEN "Borrower not World ID verified"
    ELSE IF ~(amountToStake > 0) THEN "Stake amount must be positive"
    ELSE IF tokenAddress = ZeroAddress THEN "Invalid token address"
    ELSE IF ~TransferOk(balances, tokenAddress, caller, amountToStake)
        THEN "ERC20: transfer amount exceeds balance"
    ELSE ""

\* addVouch: message of the first failing require or transfer
addVouchError(caller, borrowerToVouchFor, amountToStake, tokenAddress) ==
    IF ~isUserRegistered[caller] THEN "Reputation: User not World ID verified"
    ELSE IF borrowerToVouchFor = caller THEN "Cannot vouch for yourself"
    ELSE IF ~isUserRegistered[borrowerToVouchFor] THEN "Borrower not World ID verified"
    ELSE IF ~(amountToStake > 0) THEN "Stake amount must be positive"
    ELSE IF tokenAddress = ZeroAddress THEN "Invalid token address"
    ELSE IF activeVouches[caller][borrowerToVouchFor].isActive
        THEN "Already actively vouching for this borrower"
    ELSE IF ~TransferOk(balances, tokenAddress, caller, amountToStake)
        THEN "ERC20: transfer amount exceeds balance"
    ELSE ""



addVouch(caller, borrowerToVouchFor, amountToStake, tokenAddress) ==
    /\ SumOver(Users, [u \in Users |-> Len(userVouchesReceived[u])]) < MaxVouchEvents
    /\ addVouchError(caller, borrowerToVouchFor, amountToStake, tokenAddress) = ""
    /\ LET newVouch == [voucher |-> caller, borrower |-> borrowerToVouchFor,
                        tokenAddress |-> tokenAddress, stakedAmount |-> amountToStake,
                        isActive |-> TRUE]
           r0 == initializeReputationProfileIfNotExists(
                     initializeReputationProfileIfNotExists(userReputations, caller),
                     borrowerToVouchFor)
       IN /\ balances' = Transfer(balances, tokenAddress, caller, ReputationAddress,
                                  amountToStake)
          /\ activeVouches' = [activeVouches EXCEPT ![caller][borrowerToVouchFor] = newVouch]
          /\ userVouchesGiven' = [userVouchesGiven EXCEPT ![caller] = Append(@, newVouch)]
          /\ userVouchesReceived' =
                [userVouchesReceived EXCEPT ![borrowerToVouchFor] = Append(@, newVouch)]
          /\ userReputations' = [r0 EXCEPT ![caller].vouchingStakeAmount = @ + amountToStake,
                                           ![caller].timesVouchedForOthers = @ + 1]
          /\ events' = <<VouchAdded(caller, borrowerToVouchFor, tokenAddress, amountToStake)>>
    /\ UNCHANGED <<now, registryVars, authorityVars, lendingVars>>

\* mutant of removeVouchError: a vouch cannot be withdrawn while the borrower has
\* an agreement that is neither Repaid nor Defaulted
removeVouchError_ChecksLoans(caller, borrowerVouchedFor) ==
    IF ~isUserRegistered[caller] THEN "Reputation: User not World ID verified"
    ELSE LET vouch == activeVouches[caller][borrowerVouchedFor] IN
    IF ~vouch.isActive THEN "No active vouch for this borrower"
    ELSE IF \E a \in DOMAIN loanAgreements :
                /\ loanAgreements[a].borrower = borrowerVouchedFor
                /\ loanAgreements[a].status \notin {Repaid, Defaulted}
        THEN "Borrower has active loans"
    ELSE IF userReputations[caller].vouchingStakeAmount < vouch.stakedAmount
        THEN "panic: arithmetic underflow"
    ELSE IF ~TransferOk(balances, vouch.tokenAddress, ReputationAddress, vouch.stakedAmount)
        THEN "ERC20: transfer amount exceeds balance"
    ELSE ""

\* removeVouch: message of the first failing require, checked subtraction or transfer
removeVouchError(caller, borrowerVouchedFor) ==
    IF ~isUserRegistered[caller] THEN "Reputation: User not World ID verified"
    ELSE LET vouch == activeVouches[caller][borrowerVouchedFor] IN
    IF ~vouch.isActive THEN "No active vouch for this borrower"
    ELSE IF userReputations[caller].vouchingStakeAmount < vouch.stakedAmount
        THEN "panic: arithmetic underflow"
    ELSE IF ~TransferOk(balances, vouch.tokenAddress, ReputationAddress, vouch.stakedAmount)
        THEN "ERC20: transfer amount exceeds balance"
    ELSE ""

\* mutant of removeVouch: the vouch is not marked inactive
removeVouch_StaysActive(caller, borrowerVouchedFor) ==
    /\ removeVouchError(caller, borrowerVouchedFor) = ""
    /\ LET vouch == activeVouches[caller][borrowerVouchedFor]
           stakedAmountToReturn == vouch.stakedAmount
       IN /\ activeVouches' = activeVouches
          /\ userReputations' =
                [userReputations EXCEPT ![caller].vouchingStakeAmount = @ - stakedAmountToReturn]
          /\ balances' = Transfer(balances, vouch.tokenAddress, ReputationAddress, caller,
                                  stakedAmountToReturn)
          /\ events' = <<VouchRemoved(caller, borrowerVouchedFor, stakedAmountToReturn)>>
    /\ UNCHANGED <<now, registryVars, authorityVars, lendingVars,
                   userVouchesGiven, userVouchesReceived>>

removeVouch(caller, borrowerVouchedFor) ==
    /\ removeVouchError(caller, borrowerVouchedFor) = ""
    /\ LET vouch == activeVouches[caller][borrowerVouchedFor]
           stakedAmountToReturn == vouch.stakedAmount
       IN /\ activeVouches' = [activeVouches EXCEPT ![caller][borrowerVouchedFor].isActive = FALSE]
          /\ userReputations' =
                [userReputations EXCEPT ![caller].vouchingStakeAmount = @ - stakedAmountToReturn]
          /\ balances' = Transfer(balances, vouch.tokenAddress, ReputationAddress, caller,
                                  stakedAmountToReturn)
          /\ events' = <<VouchRemoved(caller, borrowerVouchedFor, stakedAmountToReturn)>>
    /\ UNCHANGED <<now, registryVars, authorityVars, lendingVars,
                   userVouchesGiven, userVouchesReceived>>

\* The part of the state a default touches inside Reputation and the ledgers:
\* [vouches, reps, bal].  slashVouchAndReputation: first failing require,
\* checked subtraction or transfer.
slashVouchAndReputationError(st, sender, voucher, defaultingBorrower, amountToSlash) ==
    IF ~onlyP2PLendingContract(sender) THEN "Reputation: Caller is not P2PLending contract"
    ELSE LET vouch == st.vouches[voucher][defaultingBorrower] IN
    IF ~vouch.isActive THEN "Vouch not active or does not exist"
    ELSE IF ~(amountToSlash <= vouch.stakedAmount) THEN "Slash amount exceeds staked amount"
    ELSE IF ~(amountToSlash > 0) THEN "Slash amount must be positive"
    ELSE IF st.reps[voucher].vouchingStakeAmount < amountToSlash
        THEN "panic: arithmetic underflow"
    ELSE IF ~TransferOk(st.bal, vouch.tokenAddress, ReputationAddress, amountToSlash)
        THEN "ERC20: transfer amount exceeds balance"
    ELSE ""

\* mutant of slashVouchAndReputation: the profile's aggregate stake is not reduced
slashVouchAndReputation_StaleProfile(st, voucher, defaultingBorrower, amountToSlash, lenderToCompensate) ==
    LET vouch == st.vouches[voucher][defaultingBorrower]
        r0 == initializeReputationProfileIfNotExists(st.reps, voucher)
        newStake == vouch.stakedAmount - amountToSlash
    IN [vouches |-> [st.vouches EXCEPT
                        ![voucher][defaultingBorrower].stakedAmount = newStake,
                        ![voucher][defaultingBorrower].isActive =
                            IF newStake = 0 THEN FALSE ELSE @],
        reps |-> [r0 EXCEPT
                    ![voucher].currentReputationScore =
                        @ + REPUTATION_POINTS_VOUCH_DEFAULTED_VOUCHER,
                    ![voucher].timesDefaultedAsVoucher = @ + 1],
        bal |-> Transfer(st.bal, vouch.tokenAddress, ReputationAddress, lenderToCompensate,
                         amountToSlash)]

\* mutant of slashVouchAndReputation: the vouch's stake is not reduced
slashVouchAndReputation_StaleStake(st, voucher, defaultingBorrower, amountToSlash, lenderToCompensate) ==
    LET vouch == st.vouches[voucher][defaultingBorrower]
        r0 == initializeReputationProfileIfNotExists(st.reps, voucher)
    IN [vouches |-> st.vouches,
        reps |-> [r0 EXCEPT
                    ![voucher].currentReputationScore =
                        @ + REPUTATION_POINTS_VOUCH_DEFAULTED_VOUCHER,
                    ![voucher].vouchingStakeAmount = @ - amountToSlash,
                    ![voucher].timesDefaultedAsVoucher = @ + 1],
        bal |-> Transfer(st.bal, vouch.tokenAddress, ReputationAddress, lenderToCompensate,
                         amountToSlash)]

\* slashVouchAndReputation: the state after a call that does not revert
slashVouchAndReputation(st, voucher, defaultingBorrower, amountToSlash, lenderToCompensate) ==
    LET vouch == st.vouches[voucher][defaultingBorrower]
        r0 == initializeReputationProfileIfNotExists(st.reps, voucher)
        newStake == vouch.stakedAmount - amountToSlash
    IN [vouches |-> [st.vouches EXCEPT
                        ![voucher][defaultingBorrower].stakedAmount = newStake,
                        ![voucher][defaultingBorrower].isActive =
                            IF newStake = 0 THEN FALSE ELSE @],
        reps |-> [r0 EXCEPT
                    ![voucher].currentReputationScore =
                        @ + REPUTATION_POINTS_VOUCH_DEFAULTED_VOUCHER,
                    ![voucher].vouchingStakeAmount = @ - amountToSlash,
                    ![voucher].timesDefaultedAsVoucher = @ + 1],
        bal |-> Transfer(st.bal, vouch.tokenAddress, ReputationAddress, lenderToCompensate,
                         amountToSlash)]

\* slashVouchAndReputation: the events it emits, in order
slashVouchAndReputationEvents(st, voucher, defaultingBorrower, amountToSlash, lenderToCompensate) ==
    LET after == slashVouchAndReputation(st, voucher, defaultingBorrower, amountToSlash,
                                         lenderToCompensate)
    IN <<VouchSlashed(voucher, defaultingBorrower, amountToSlash, lenderToCompensate),
         ReputationUpdated(voucher, after.reps[voucher].currentReputationScore,
                           "Vouched loan defaulted, stake slashed")>>

\* getActiveVouchesForBorrower: one element per entry of the borrower's received
\* history whose (voucher, borrower) slot is active now, holding the slot's
\* current contents
getActiveVouchesForBorrower(vouches, received, borrower) ==
    LET allReceived == received[borrower]
        isActiveNow(e) == vouches[e.voucher][e.borrower].isActive
        kept == SelectSeq(allReceived, isActiveNow)
    IN [i \in 1..Len(kept) |-> vouches[kept[i].voucher][kept[i].borrower]]

\* modifier onlyOwner (Ownable)
onlyOwner(sender) == sender = owner

\* setP2PLendingContractAddress: message of the first failing require
setP2PLendingContractAddressError(caller, p2pLendingAddress) ==
    IF ~onlyOwner(caller) THEN "OwnableUnauthorizedAccount"
    ELSE IF p2pLendingAddress = ZeroAddress THEN "Invalid P2PLending contract address"
    ELSE ""

setP2PLendingContractAddress(caller, p2pLendingAddress) ==
    /\ setP2PLendingContractAddressError(caller, p2pLendingAddress) = ""
    /\ p2pLendingContractAddress' = p2pLendingAddress
    /\ events' = <<>>
    /\ UNCHANGED <<now, registryVars, owner, balances, lendingVars, userReputations,
                   vouchVars>>

\* Ownable.transferOwnership, which Reputation inherits
transferOwnershipError(caller, newOwner) ==
    IF ~onlyOwner(caller) THEN "OwnableUnauthorizedAccount"
    ELSE IF newOwner = ZeroAddress THEN "OwnableInvalidOwner"
    ELSE ""

transferOwnership(caller, newOwner) ==
    /\ transferOwnershipError(caller, newOwner) = ""
    /\ owner' = newOwner
    /\ events' = <<[name |-> "OwnershipTransferred", previousOwner |-> owner,
                    newOwner |-> newOwner]>>
    /\ UNCHANGED <<now, registryVars, p2pLendingContractAddress, balances, lendingVars,
                   userReputations, vouchVars>>

\* the gated calls of a behaviour that went through, read off the counters they raise
directCallsMade ==
    SumOver(Users, [u \in Users |->
        userReputations[u].loansTaken + userReputations[u].timesDefaultedAsVoucher])

\* recordLoanPaymentOutcome called from outside: the modifier is its only require
recordLoanPaymentOutcomeError(sender) ==
    IF ~onlyP2PLendingContract(sender) THEN "Reputation: Caller is not P2PLending contract"
    ELSE ""

recordLoanPaymentOutcomeCall(sender, agreementId, borrower, lender, principalAmount, outcome, modificationTypeUsed, lenderApprovedRequest) ==
    /\ directCallsMade < MaxDirectCalls
    /\ recordLoanPaymentOutcomeError(sender) = ""
    /\ userReputations' = recordLoanPaymentOutcome(userReputations, borrower, lender,
            principalAmount, outcome, modificationTypeUsed, lenderApprovedRequest)
    /\ events' = recordLoanPaymentOutcomeEvents(userReputations, agreementId, borrower,
            lender, principalAmount, outcome, modificationTypeUsed, lenderApprovedRequest)
    /\ UNCHANGED <<now, registryVars, authorityVars, balances, lendingVars, vouchVars>>

\* updateReputationOnLoanDefault called from outside: the modifier is its only require
updateReputationOnLoanDefaultError(sender) ==
    IF ~onlyP2PLendingContract(sender) THEN "Reputation: Caller is not P2PLending contract"
    ELSE ""

updateReputationOnLoanDefaultCall(sender, borrower) ==
    /\ directCallsMade < MaxDirectCalls
    /\ updateReputationOnLoanDefaultError(sender) = ""
    /\ userReputations' = updateReputationOnLoanDefault(userReputations, borrower)
    /\ events' = updateReputationOnLoanDefaultEvents(userReputations, borrower)
    /\ UNCHANGED <<now, registryVars, authorityVars, balances, lendingVars, vouchVars>>

\* slashVouchAndReputation called from outside
slashVouchAndReputationCall(sender, voucher, defaultingBorrower, amountToSlash, lenderToCompensate) ==
    LET st == [vouches |-> activeVouches, reps |-> userReputations, bal |-> balances]
        after == slashVouchAndReputation(st, voucher, defaultingBorrower, amountToSlash,
                                         lenderToCompensate)
    IN /\ directCallsMade < MaxDirectCalls
       /\ slashVouchAndReputationError(st, sender, voucher, defaultingBorrower,
                                       amountToSlash) = ""
       /\ activeVouches' = after.vouches
       /\ userReputations' = after.reps
       /\ balances' = after.bal
       /\ events' = slashVouchAndReputationEvents(st, voucher, defaultingBorrower,
                                                  amountToSlash, lenderToCompensate)
       /\ UNCHANGED <<now, registryVars, authorityVars, lendingVars, userVouchesGiven,
                      userVouchesReceived>>

\* ------------------------------------------------ P2PLending: repayment
\* repayLoan: the status chosen after amountPaid has been increased
\* mutant of repayNewStatus: a partial payment never makes the agreement Overdue
repayNewStatus_NeverOverdue(agreement, paymentAmount, agreedPartialPaymentValue, totalDue) ==
    IF agreement.status = Active_PartialPaymentAgreed
    THEN IF paymentAmount = agreedPartialPaymentValue
         THEN IF agreement.amountPaid >= totalDue THEN Repaid
              ELSE IF now > agreement.dueDate THEN Overdue
              ELSE Active
         ELSE Active_PartialPaymentAgreed
    ELSE IF agreement.amountPaid >= totalDue THEN Repaid
         ELSE Active

repayNewStatus(agreement, paymentAmount, agreedPartialPaymentValue, totalDue) ==
    IF agreement.status = Active_PartialPaymentAgreed
    THEN IF paymentAmount = agreedPartialPaymentValue
         THEN IF agreement.amountPaid >= totalDue THEN Repaid
              ELSE IF now > agreement.dueDate THEN Overdue
              ELSE Active
         ELSE Active_PartialPaymentAgreed
    ELSE IF agreement.amountPaid >= totalDue THEN Repaid
         ELSE IF now > agreement.dueDate THEN Overdue
         ELSE Active

\* repayLoan: the outcome handed to Reputation by a settling repayment
\* mutant of classifyOutcome: a late settlement is always LateGraceOriginal
classifyOutcome_LateIsGrace(timestamp, dueDate, wasModificationApprovedBeforeRepay, originalModificationTypeBeforeRepay) ==
    IF timestamp <= dueDate
    THEN IF wasModificationApprovedBeforeRepay
         THEN IF originalModificationTypeBeforeRepay = DueDateExtension THEN OnTimeExtended
              ELSE IF originalModificationTypeBeforeRepay = PartialPaymentAgreement
              THEN PartialAgreementMetAndRepaid
              ELSE OutcomeNone
         ELSE OnTimeOriginal
    ELSE LateGraceOriginal

classifyOutcome(timestamp, dueDate, wasModificationApprovedBeforeRepay, originalModificationTypeBeforeRepay) ==
    IF timestamp <= dueDate
    THEN IF wasModificationApprovedBeforeRepay
         THEN IF originalModificationTypeBeforeRepay = DueDateExtension THEN OnTimeExtended
              ELSE IF originalModificationTypeBeforeRepay = PartialPaymentAgreement
              THEN PartialAgreementMetAndRepaid
              ELSE OutcomeNone
         ELSE OnTimeOriginal
    ELSE IF wasModificationApprovedBeforeRepay
            /\ originalModificationTypeBeforeRepay = DueDateExtension
         THEN LateExtended
         ELSE LateGraceOriginal

\* repayLoan: the agreement after the payment (amountPaid, modification reset, status)
\* mutant of repayAgreement: meeting the agreed partial payment resets nothing
repayAgreement_NoReset(agreement, paymentAmount) ==
    LET totalDue == calculateTotalDue(agreement)
        agreedPartialPaymentValue == agreement.requestedModificationValue
        paid == [agreement EXCEPT !.amountPaid = @ + paymentAmount]
    IN [paid EXCEPT !.status =
            repayNewStatus(paid, paymentAmount, agreedPartialPaymentValue, totalDue)]

repayAgreement(agreement, paymentAmount) ==
    LET totalDue == calculateTotalDue(agreement)
        agreedPartialPaymentValue == agreement.requestedModificationValue
        paid == [agreement EXCEPT !.amountPaid = @ + paymentAmount]
        reset == IF agreement.status = Active_PartialPaymentAgreed
                    /\ paymentAmount = agreedPartialPaymentValue
                 THEN [paid EXCEPT !.modificationApprovedByLender = FALSE,
                                   !.requestedModificationValue = 0]
                 ELSE paid
    IN [reset EXCEPT !.status =
            repayNewStatus(paid, paymentAmount, agreedPartialPaymentValue, totalDue)]

\* mutant of repayableStatus: the status is not checked
repayableStatus_Any(status) == TRUE

\* repayLoan: the status check of the second require
\* mutant of repayableStatus: a pending modification does not stop a repayment
repayableStatus_WithPending(status) ==
    status \in {Active, Overdue, Active_PartialPaymentAgreed, PendingModificationApproval}

repayableStatus(status) == status \in {Active, Overdue, Active_PartialPaymentAgreed}

\* mutant of withinRemainingDue: the payment is compared with the total due
withinRemainingDue_Total(paymentAmount, totalDue, amountPaid) == paymentAmount <= totalDue

\* repayLoan: the bound on the payment, paymentAmount <= remainingDueBeforePayment
withinRemainingDue(paymentAmount, totalDue, amountPaid) ==
    paymentAmount <= totalDue - amountPaid

\* mutant of releaseCollateral: the collateral stays in the contract
releaseCollateral_Kept(bal, agreement) == bal

\* repayLoan: the ledgers after the collateral of a settled agreement is released
releaseCollateral(bal, agreement) ==
    IF agreement.collateralAmount > 0 /\ agreement.collateralToken # ZeroAddress
    THEN Transfer(bal, agreement.collateralToken, P2PLendingAddress, agreement.borrower,
                  agreement.collateralAmount)
    ELSE bal

\* repayLoan: message of the first failing require, transfer or nested call
repayLoanError(caller, agreementId, paymentAmount) ==
    IF agreementId \notin DOMAIN loanAgreements THEN "P2PL: Not borrower"
    ELSE LET agreement == loanAgreements[agreementId]
             totalDue == calculateTotalDue(agreement) IN
    IF agreement.borrower # caller THEN "P2PL: Not borrower"
    ELSE IF ~repayableStatus(agreement.status) THEN "P2PL: Loan not in repayable state"
    ELSE IF ~(paymentAmount > 0) THEN "P2PL: Payment amount must be > 0"
    ELSE IF calculateTotalDueError(agreement) # "" THEN calculateTotalDueError(agreement)
    ELSE IF totalDue < agreement.amountPaid THEN "panic: arithmetic underflow"
    ELSE IF ~withinRemainingDue(paymentAmount, totalDue, agreement.amountPaid)
        THEN "P2PL: Payment exceeds remaining due"
    ELSE IF ~TransferOk(balances, agreement.loanToken, caller, paymentAmount)
        THEN "ERC20: transfer amount exceeds balance"
    ELSE LET after == repayAgreement(agreement, paymentAmount)
             bal1 == Transfer(balances, agreement.loanToken, caller, agreement.lender,
                              paymentAmount) IN
    IF after.status = Repaid /\ agreement.collateralAmount > 0
       /\ agreement.collateralToken # ZeroAddress
       /\ ~TransferOk(bal1, agreement.collateralToken, P2PLendingAddress,
                      agreement.collateralAmount)
        THEN "ERC20: transfer amount exceeds balance"
    ELSE IF after.status = Repaid /\ ~onlyP2PLendingContract(P2PLendingAddress)
        THEN "Reputation: Caller is not P2PLending contract"
    ELSE ""

\* repayLoan: the events of a call that goes through, its own and then the
\* ones Reputation emits inside recordLoanPaymentOutcome
repayLoanEvents(caller, agreementId, paymentAmount) ==
    LET agreement == loanAgreements[agreementId]
        totalDue == calculateTotalDue(agreement)
        after == repayAgreement(agreement, paymentAmount)
        newRemainingBalance == IF after.amountPaid >= totalDue THEN 0
                               ELSE totalDue - after.amountPaid
        outcomeType == classifyOutcome(now, agreement.dueDate,
                                       agreement.modificationApprovedByLender,
                                       agreement.requestedModificationType)
    IN <<LoanRepayment(agreementId, caller, paymentAmount, after.amountPaid,
                       newRemainingBalance, after.status)>>
       \o
       (IF after.status = Repaid
        THEN <<LoanAgreementRepaid(agreementId)>>
             \o recordLoanPaymentOutcomeEvents(userReputations, agreementId,
                    agreement.borrower, agreement.lender, agreement.principalAmount,
                    outcomeType, agreement.requestedModificationType,
                    agreement.modificationApprovedByLender)
        ELSE <<>>)

repayLoan(caller, agreementId, paymentAmount) ==
    /\ repayLoanError(caller, agreementId, paymentAmount) = ""
    /\ LET agreement == loanAgreements[agreementId]
           after == repayAgreement(agreement, paymentAmount)
           bal1 == Transfer(balances, agreement.loanToken, caller, agreement.lender,
                            paymentAmount)
           outcomeType == classifyOutcome(now, agreement.dueDate,
                                          agreement.modificationApprovedByLender,
                                          agreement.requestedModificationType)
       IN /\ loanAgreements' = [loanAgreements EXCEPT ![agreementId] = after]
          /\ IF after.status = Repaid
             THEN /\ balances' = releaseCollateral(bal1, agreement)
                  /\ userReputations' =
                        recordLoanPaymentOutcome(userReputations, agreement.borrower,
                            agreement.lender, agreement.principalAmount, outcomeType,
                            agreement.requestedModificationType,
                            agreement.modificationApprovedByLender)
             ELSE /\ balances' = bal1
                  /\ UNCHANGED userReputations
          /\ events' = repayLoanEvents(caller, agreementId, paymentAmount)
    /\ UNCHANGED <<now, registryVars, authorityVars, loanOffers,
                   loanRequests, vouchVars>>

\* --------------------------------------------------- P2PLending: default
\* handleP2PDefault: the slash amount computed from a snapshot entry
slashAmountFor(stakedAmount) ==
    LET raw == (stakedAmount * tenPercentSlashBasis) \div BASIS_POINTS
        atLeastOne == IF raw = 0 /\ stakedAmount > 0 THEN 1 ELSE raw
    IN IF atLeastOne > stakedAmount THEN stakedAmount ELSE atLeastOne

\* mutant of defaultableStatus: every status but Repaid can be defaulted
defaultableStatus_AnyUnpaid(status) == status # Repaid

\* handleP2PDefault: the status check of the second require
defaultableStatus(status) == status = Active

RECURSIVE slashLoop(_, _, _, _, _)
\* handleP2PDefault: the for-loop over the snapshot, from index i on.  The
\* result is [err, st]: err is the message of the first reverting slash call.
slashLoop(st, snapshot, i, borrower, lender) ==
    IF i > Len(snapshot) THEN [err |-> "", st |-> st]
    ELSE LET currentVouch == snapshot[i]
             slashAmount == slashAmountFor(currentVouch.stakedAmount) IN
    IF currentVouch.isActive /\ currentVouch.stakedAmount > 0
       /\ mulOverflows(currentVouch.stakedAmount, tenPercentSlashBasis)
    THEN [err |-> ArithmeticOverflow, st |-> st]
    ELSE IF currentVouch.isActive /\ currentVouch.stakedAmount > 0 /\ slashAmount > 0
    THEN LET e == slashVouchAndReputationError(st, P2PLendingAddress, currentVouch.voucher,
                                               borrower, slashAmount) IN
         IF e # "" THEN [err |-> e, st |-> st]
         ELSE slashLoop(slashVouchAndReputation(st, currentVouch.voucher, borrower,
                                                slashAmount, lender),
                        snapshot, i + 1, borrower, lender)
    ELSE slashLoop(st, snapshot, i + 1, borrower, lender)

RECURSIVE slashLoopEvents(_, _, _, _, _)
\* handleP2PDefault: the events of the for-loop over the snapshot, from index
\* i on, for a loop in which no slash call reverts
slashLoopEvents(st, snapshot, i, borrower, lender) ==
    IF i > Len(snapshot) THEN <<>>
    ELSE LET currentVouch == snapshot[i]
             slashAmount == slashAmountFor(currentVouch.stakedAmount) IN
    IF currentVouch.isActive /\ currentVouch.stakedAmount > 0 /\ slashAmount > 0
    THEN slashVouchAndReputationEvents(st, currentVouch.voucher, borrower, slashAmount, lender)
         \o slashLoopEvents(slashVouchAndReputation(st, currentVouch.voucher, borrower,
                                                    slashAmount, lender),
                            snapshot, i + 1, borrower, lender)
    ELSE slashLoopEvents(st, snapshot, i + 1, borrower, lender)

\* handleP2PDefault: everything after the requires, as [err, st]
defaultEffects(agreement) ==
    LET bal1 == IF agreement.collateralAmount > 0 /\ agreement.collateralToken # ZeroAddress
                THEN Transfer(balances, agreement.collateralToken, P2PLendingAddress,
                              agreement.lender, agreement.collateralAmount)
                ELSE balances
        st0 == [vouches |-> activeVouches,
                reps |-> updateReputationOnLoanDefault(userReputations, agreement.borrower),
                bal |-> bal1]
        snapshot == getActiveVouchesForBorrower(activeVouches, userVouchesReceived,
                                                agreement.borrower)
    IN slashLoop(st0, snapshot, 1, agreement.borrower, agreement.lender)

\* handleP2PDefault: the events of a call that goes through, its own and then
\* the ones Reputation emits inside the nested calls
handleP2PDefaultEvents(agreementId) ==
    LET agreement == loanAgreements[agreementId]
        st0 == [vouches |-> activeVouches,
                reps |-> updateReputationOnLoanDefault(userReputations, agreement.borrower),
                bal |-> balances]
        snapshot == getActiveVouchesForBorrower(activeVouches, userVouchesReceived,
                                                agreement.borrower)
    IN <<LoanAgreementDefaulted(agreementId)>>
       \o updateReputationOnLoanDefaultEvents(userReputations, agreement.borrower)
       \o slashLoopEvents(st0, snapshot, 1, agreement.borrower, agreement.lender)

\* handleP2PDefault: message of the first failing require, transfer or nested call
handleP2PDefaultError(agreementId) ==
    IF agreementId \notin DOMAIN loanAgreements THEN "P2PL: Agreement does not exist"
    ELSE LET agreement == loanAgreements[agreementId] IN
    IF ~defaultableStatus(agreement.status) THEN "P2PL: Loan not active for default"
    ELSE IF ~(now > agreement.dueDate) THEN "P2PL: Loan not yet overdue"
    ELSE IF calculateTotalDueError(agreement) # "" THEN calculateTotalDueError(agreement)
    ELSE IF ~(agreement.amountPaid < calculateTotalDue(agreement))
        THEN "P2PL: Loan already fully paid, cannot default"
    ELSE IF agreement.collateralAmount > 0 /\ agreement.collateralToken # ZeroAddress
            /\ ~TransferOk(balances, agreement.collateralToken, P2PLendingAddress,
                           agreement.collateralAmount)
        THEN "ERC20: transfer amount exceeds balance"
    ELSE IF ~onlyP2PLendingContract(P2PLendingAddress)
        THEN "Reputation: Caller is not P2PLending contract"
    ELSE defaultEffects(agreement).err

handleP2PDefault(caller, agreementId) ==
    /\ handleP2PDefaultError(agreementId) = ""
    /\ LET agreement == loanAgreements[agreementId]
           res == defaultEffects(agreement).st
       IN /\ loanAgreements' = [loanAgreements EXCEPT ![agreementId].status = Defaulted]
          /\ balances' = res.bal
          /\ userReputations' = res.reps
          /\ activeVouches' = res.vouches
          /\ events' = handleP2PDefaultEvents(agreementId)
    /\ UNCHANGED <<now, registryVars, authorityVars, loanOffers,
                   loanRequests, userVouchesGiven, userVouchesReceived>>

\* --------------------------------------------- P2PLending: modifications
\* mutant of requestPaymentModificationError: a new due date need not be later
requestPaymentModificationError_AnyDate(caller, agreementId, modificationType, value) ==
    IF agreementId \notin DOMAIN loanAgreements THEN "P2PL: Not borrower"
    ELSE LET agreement == loanAgreements[agreementId] IN
    IF agreement.borrower # caller THEN "P2PL: Not borrower"
    ELSE IF agreement.status \notin {Active, Overdue} THEN "P2PL: Loan not active/overdue"
    ELSE IF ~(value > 0) THEN "P2PL: Modification value must be > 0"
    ELSE ""

\* requestPaymentModification: message of the first failing require
requestPaymentModificationError(caller, agreementId, modificationType, value) ==
    IF agreementId \notin DOMAIN loanAgreements THEN "P2PL: Not borrower"
    ELSE LET agreement == loanAgreements[agreementId] IN
    IF agreement.borrower # caller THEN "P2PL: Not borrower"
    ELSE IF agreement.status \notin {Active, Overdue} THEN "P2PL: Loan not active/overdue"
    ELSE IF ~(value > 0) THEN "P2PL: Modification value must be > 0"
    ELSE IF modificationType = DueDateExtension /\ ~(value > agreement.dueDate)
        THEN "P2PL: New due date must be later"
    ELSE ""

requestPaymentModification(caller, agreementId, modificationType, value) ==
    /\ requestPaymentModificationError(caller, agreementId, modificationType, value) = ""
    /\ loanAgreements' = [loanAgreements EXCEPT
            ![agreementId].requestedModificationType = modificationType,
            ![agreementId].requestedModificationValue = value,
            ![agreementId].modificationApprovedByLender = FALSE,
            ![agreementId].status = PendingModificationApproval]
    /\ events' = <<PaymentModificationRequested(agreementId, caller, modificationType, value)>>
    /\ UNCHANGED <<now, registryVars, authorityVars, balances, loanOffers,
                   loanRequests, userReputations, vouchVars>>

\* respondToPaymentModification: message of the first failing require
respondToPaymentModificationError(caller, agreementId) ==
    IF agreementId \notin DOMAIN loanAgreements THEN "P2PL: Not lender"
    ELSE LET agreement == loanAgreements[agreementId] IN
    IF agreement.lender # caller THEN "P2PL: Not lender"
    ELSE IF agreement.status # PendingModificationApproval
        THEN "P2PL: No pending modification"
    ELSE ""

\* mutant of respondAgreement: a rejected extension still moves the due date
respondAgreement_RejectApplies(agreement, approved) ==
    LET originalType == agreement.requestedModificationType
        originalValue == agreement.requestedModificationValue
    IN IF approved
       THEN LET a1 == [agreement EXCEPT !.modificationApprovedByLender = TRUE] IN
            IF originalType = DueDateExtension
            THEN [a1 EXCEPT !.dueDate = originalValue,
                            !.status = IF now < originalValue THEN Active ELSE Overdue]
            ELSE IF originalType = PartialPaymentAgreement
            THEN [a1 EXCEPT !.status = Active_PartialPaymentAgreed]
            ELSE a1
       ELSE [agreement EXCEPT !.modificationApprovedByLender = FALSE,
                              !.dueDate = IF originalType = DueDateExtension
                                          THEN originalValue ELSE @,
                              !.status = IF now < agreement.dueDate THEN Active ELSE Overdue]

\* respondToPaymentModification: the agreement after the response
respondAgreement(agreement, approved) ==
    LET originalType == agreement.requestedModificationType
        originalValue == agreement.requestedModificationValue
    IN IF approved
       THEN LET a1 == [agreement EXCEPT !.modificationApprovedByLender = TRUE] IN
            IF originalType = DueDateExtension
            THEN [a1 EXCEPT !.dueDate = originalValue,
                            !.status = IF now < originalValue THEN Active ELSE Overdue]
            ELSE IF originalType = PartialPaymentAgreement
            THEN [a1 EXCEPT !.status = Active_PartialPaymentAgreed]
            ELSE a1
       ELSE [agreement EXCEPT !.modificationApprovedByLender = FALSE,
                              !.status = IF now < agreement.dueDate THEN Active ELSE Overdue]

respondToPaymentModification(caller, agreementId, approved) ==
    /\ respondToPaymentModificationError(caller, agreementId) = ""
    /\ loanAgreements' = [loanAgreements EXCEPT
            ![agreementId] = respondAgreement(loanAgreements[agreementId], approved)]
    /\ events' = <<PaymentModificationResponded(agreementId, caller, approved,
                        loanAgreements[agreementId].requestedModificationType,
                        loanAgreements[agreementId].requestedModificationValue)>>
    /\ UNCHANGED <<now, registryVars, authorityVars, balances, loanOffers,
                   loanRequests, userReputations, vouchVars>>

\* --------------------------------------------------------- specifications
\* inputs of the formation calls
CollateralChoices == {<<0, ZeroAddress>>, <<CollateralAmount, "mUSDC">>}
Durations == 0..MaxDuration
ListingIds == 1..MaxListings
AgreementIds == 1..MaxListings
\* payments: every amount up to one more than the total due
PaymentAmounts == 0..(LoanAmount + calculateInterest(LoanAmount, RateBPS) + 1)
\* modification requests: new due dates up to MaxTime + 1, partial amounts up to
\* MaxPartialValue, and the type None, which the function does not reject
ModificationRequests ==
    {<<ModNone, 1>>}
        \cup {<<DueDateExtension, v>> : v \in 0..(MaxTime + 1)}
        \cup {<<PartialPaymentAgreement, v>> : v \in 0..MaxPartialValue}
StakeAmounts == {0, 1, BigStake}

\* In Spec alice lends (her offer, or bob's request) and alice or bob tries to
\* take the other side; every caller tries the calls on an existing agreement.
NextLending ==
    \/ Tick
    \/ \E d \in Durations, k \in CollateralChoices :
            createLoanOffer("alice", LoanAmount, "mDAI", RateBPS, d, k[1], k[2])
    \/ \E c \in {"alice", "bob"}, o \in ListingIds, k \in CollateralChoices :
            acceptLoanOffer(c, o, k[1], k[2])
    \/ \E d \in Durations, k \in CollateralChoices :
            createLoanRequest("bob", LoanAmount, "mDAI", RateBPS, d, k[1], k[2])
    \/ \E c \in {"alice", "bob"}, r \in ListingIds : fundLoanRequest(c, r)
    \/ \E c \in Users, a \in AgreementIds, p \in PaymentAmounts : repayLoan(c, a, p)
    \/ \E c \in Users, a \in AgreementIds, r \in ModificationRequests :
            requestPaymentModification(c, a, r[1], r[2])
    \/ \E c \in Users, a \in AgreementIds, ok \in BOOLEAN :
            respondToPaymentModification(c, a, ok)
    \/ \E c \in Users, a \in AgreementIds : handleP2PDefault(c, a)

Spec == Init /\ [][NextLending]_vars

\* SpecVouch starts where alice's uncollateralized offer has just been accepted by
\* bob (createLoanOffer then acceptLoanOffer at time 0): every user vouches for
\* alice or bob and withdraws, time passes, and anyone declares the default.
InitVouch ==
    /\ now = 0
    /\ isUserRegistered = [u \in Users |-> TRUE]
    /\ userNames = SetUpNames
    /\ registrationTime = [u \in Users |-> 0]
    /\ registeredUsers = <<"bob", "alice", "carol">>
    /\ totalUsers = 3
    /\ p2pLendingContractAddress = P2PLendingAddress
    /\ owner = Deployer
    /\ balances = [t \in Tokens |-> [h \in Holders |->
            IF h \notin Users THEN 0
            ELSE IF t = "mDAI" /\ h = "alice" THEN InitialMint - LoanAmount
            ELSE IF t = "mDAI" /\ h = "bob" THEN InitialMint + LoanAmount
            ELSE InitialMint]]
    /\ loanOffers = <<[id |-> 1, lender |-> "alice", amount |-> LoanAmount,
                       token |-> "mDAI", interestRateBPS |-> RateBPS,
                       durationSeconds |-> MaxDuration,
                       requiredCollateralAmount |-> 0, collateralToken |-> ZeroAddress,
                       isActive |-> FALSE, isFulfilled |-> TRUE]>>
    /\ loanRequests = <<>>
    /\ loanAgreements = <<LoanAgreementStruct(1, 1, 0, "alice", "bob", LoanAmount, "mDAI",
                                              RateBPS, MaxDuration, 0, ZeroAddress, 0)>>
    /\ userReputations = [u \in Users |-> EmptyProfile]
    /\ activeVouches = [v \in Users |-> [b \in Users |-> EmptyVouch]]
    /\ userVouchesGiven = [u \in Users |-> <<>>]
    /\ userVouchesReceived = [u \in Users |-> <<>>]
    /\ events = <<LoanAgreementCreated(
                     LoanAgreementStruct(1, 1, 0, "alice", "bob", LoanAmount, "mDAI",
                                         RateBPS, MaxDuration, 0, ZeroAddress, 0))>>

NextVouch ==
    \/ Tick
    \/ \E c \in Users, b \in {"alice", "bob"}, s \in StakeAmounts, t \in Tokens :
            addVouch(c, b, s, t)
    \/ \E c \in Users, b \in Users : removeVouch(c, b)
    \/ \E c \in Users, a \in AgreementIds : handleP2PDefault(c, a)

SpecVouch == InitVouch /\ [][NextVouch]_vars

\* an amount in the upper half of the word
WideAmount == (WordMax + 1) \div 2

\* SpecWide starts like Spec, except that the token owners have minted WideAmount
\* more mDAI to alice and WideAmount more mUSDC to carol.
InitWide ==
    /\ now = 0
    /\ isUserRegistered = [u \in Users |-> TRUE]
    /\ userNames = SetUpNames
    /\ registrationTime = [u \in Users |-> 0]
    /\ registeredUsers = <<"bob", "alice", "carol">>
    /\ totalUsers = 3
    /\ p2pLendingContractAddress = P2PLendingAddress
    /\ owner = Deployer
    /\ balances = [t \in Tokens |-> [h \in Holders |->
            IF h \notin Users THEN 0
            ELSE IF (t = "mDAI" /\ h = "alice") \/ (t = "mUSDC" /\ h = "carol")
                 THEN InitialMint + WideAmount
            ELSE InitialMint]]
    /\ loanOffers = <<>>
    /\ loanRequests = <<>>
    /\ loanAgreements = <<>>
    /\ userReputations = [u \in Users |-> EmptyProfile]
    /\ activeVouches = [v \in Users |-> [b \in Users |-> EmptyVouch]]
    /\ userVouchesGiven = [u \in Users |-> <<>>]
    /\ userVouchesReceived = [u \in Users |-> <<>>]
    /\ events = <<>>

\* In SpecWide alice offers LoanAmount or WideAmount without collateral, bob
\* accepts and repays, carol vouches for bob with BigStake or WideAmount and
\* withdraws, time passes, and carol declares the default.
NextWide ==
    \/ Tick
    \/ \E amount \in {LoanAmount, WideAmount} :
            createLoanOffer("alice", amount, "mDAI", RateBPS, MaxDuration, 0, ZeroAddress)
    \/ \E o \in ListingIds : acceptLoanOffer("bob", o, 0, ZeroAddress)
    \/ \E a \in AgreementIds, p \in PaymentAmounts : repayLoan("bob", a, p)
    \/ \E s \in {BigStake, WideAmount} : addVouch("carol", "bob", s, "mUSDC")
    \/ removeVouch("carol", "bob")
    \/ \E a \in AgreementIds : handleP2PDefault("carol", a)

SpecWide == InitWide /\ [][NextWide]_vars

\* SpecAuthority starts after the constructors, the registrations and the mints,
\* before the owner has configured the lending authority.  Every account tries the
\* setter, the ownership transfer and the three gated functions; carol vouches for
\* bob so that there is a stake to slash.
Callers == Users \cup {Deployer}
AuthorityChoices == {ZeroAddress, P2PLendingAddress, "alice"}
OwnerChoices == {ZeroAddress, Deployer, "alice"}
SlashAmounts == {0, 1, BigStake + 1}

InitAuthority ==
    /\ now = 0
    /\ isUserRegistered = [u \in Users |-> TRUE]
    /\ userNames = SetUpNames
    /\ registrationTime = [u \in Users |-> 0]
    /\ registeredUsers = <<"bob", "alice", "carol">>
    /\ totalUsers = 3
    /\ p2pLendingContractAddress = ZeroAddress
    /\ owner = Deployer
    /\ balances = [t \in Tokens |-> [h \in Holders |-> IF h \in Users THEN InitialMint ELSE 0]]
    /\ loanOffers = <<>>
    /\ loanRequests = <<>>
    /\ loanAgreements = <<>>
    /\ userReputations = [u \in Users |-> EmptyProfile]
    /\ activeVouches = [v \in Users |-> [b \in Users |-> EmptyVouch]]
    /\ userVouchesGiven = [u \in Users |-> <<>>]
    /\ userVouchesReceived = [u \in Users |-> <<>>]
    /\ events = <<>>

NextAuthority ==
    \/ \E c \in Callers, a \in AuthorityChoices : setP2PLendingContractAddress(c, a)
    \/ \E c \in Callers, n \in OwnerChoices : transferOwnership(c, n)
    \/ addVouch("carol", "bob", BigStake, "mDAI")
    \/ \E c \in Callers, o \in PaymentOutcomeType, t \in PaymentModificationType,
          ok \in BOOLEAN :
            recordLoanPaymentOutcomeCall(c, 1, "bob", "alice", LoanAmount, o, t, ok)
    \/ \E c \in Callers : updateReputationOnLoanDefaultCall(c, "bob")
    \/ \E c \in Callers, s \in SlashAmounts :
            slashVouchAndReputationCall(c, "carol", "bob", s, "alice")

SpecAuthority == InitAuthority /\ [][NextAuthority]_vars

\* SpecRegistry starts from the freshly constructed contracts: nobody is registered
\* and nothing is minted.  Every user registers and renames with names that are
\* empty, short, exactly 50 bytes and 51 bytes long, while time passes.
Name50 == "01234567890123456789012345678901234567890123456789"
Name51 == "012345678901234567890123456789012345678901234567890"
Names == {"", "a", Name50, Name51}

InitRegistry ==
    /\ now = 0
    /\ isUserRegistered = [u \in Users |-> FALSE]
    /\ userNames = [u \in Users |-> ""]
    /\ registrationTime = [u \in Users |-> 0]
    /\ registeredUsers = <<>>
    /\ totalUsers = 0
    /\ p2pLendingContractAddress = ZeroAddress
    /\ owner = Deployer
    /\ balances = [t \in Tokens |-> [h \in Holders |-> 0]]
    /\ loanOffers = <<>>
    /\ loanRequests = <<>>
    /\ loanAgreements = <<>>
    /\ userReputations = [u \in Users |-> EmptyProfile]
    /\ activeVouches = [v \in Users |-> [b \in Users |-> EmptyVouch]]
    /\ userVouchesGiven = [u \in Users |-> <<>>]
    /\ userVouchesReceived = [u \in Users |-> <<>>]
    /\ events = <<>>

NextRegistry ==
    \/ Tick
    \/ \E c \in Users, n \in Names : registerUser(c, n)
    \/ \E c \in Users, n \in Names : updateProfile(c, n)

SpecRegistry == InitRegistry /\ [][NextRegistry]_vars

\* ------------------------------------------------------------ properties
\* the statuses in which an agreement's collateral is still escrowed
LiveStatuses == {Active, Overdue, PendingModificationApproval, Active_PartialPaymentAgreed}

\* total due written out from the agreement's terms, truncating division
TotalDueOf(ag) == ag.principalAmount + (ag.principalAmount * ag.interestRateBPS) \div 10000

\* agreement a leaves a non-terminal status for Repaid in this step
SettlesNow(a) ==
    /\ a \in DOMAIN loanAgreements
    /\ loanAgreements[a].status # Repaid
    /\ loanAgreements'[a].status = Repaid

\* agreement a becomes Defaulted in this step
DefaultsNow(a) ==
    /\ a \in DOMAIN loanAgreements
    /\ loanAgreements[a].status # Defaulted
    /\ loanAgreements'[a].status = Defaulted

\* what P2PLending owes in token t: open offers plus collateral of live agreements
EscrowedInLending(t) ==
    SumSeq([i \in DOMAIN loanOffers |->
                IF loanOffers[i].isActive /\ ~loanOffers[i].isFulfilled
                   /\ loanOffers[i].token = t
                THEN loanOffers[i].amount ELSE 0])
    + SumSeq([i \in DOMAIN loanAgreements |->
                IF loanAgreements[i].status \in LiveStatuses
                   /\ loanAgreements[i].collateralToken = t
                THEN loanAgreements[i].collateralAmount ELSE 0])

\* C1: handle_default succeeds on every agreement that is Active or Overdue with
\* now > due_date and amount_paid < total_due.
C1_DefaultSucceedsWhenDue ==
    \A a \in DOMAIN loanAgreements :
        LET ag == loanAgreements[a] IN
        (ag.status \in {Active, Overdue} /\ now > ag.dueDate
            /\ ag.amountPaid < TotalDueOf(ag))
        => handleP2PDefaultError(a) = ""

\* C2: an agreement whose amount_paid has reached total_due has status Repaid.
C2_FullyPaidIsRepaid ==
    \A a \in DOMAIN loanAgreements :
        LET ag == loanAgreements[a] IN
        ag.amountPaid >= TotalDueOf(ag) => ag.status = Repaid

\* C4: an agreement whose approved partial-payment agreement has been met exactly
\* (type PartialPaymentAgreement, value and approval cleared by that payment, no
\* request since) and that is settled at now <= due_date is recorded as
\* PartialAgreementMetAndRepaid: borrower +8, lender +4, approvals of the lender +1.
C4_PartialAgreementMetOutcome ==
    [][\A a \in DOMAIN loanAgreements :
        LET ag == loanAgreements[a] IN
        (/\ SettlesNow(a)
         /\ ag.status \in {Active, Overdue}
         /\ ag.requestedModificationType = PartialPaymentAgreement
         /\ ag.requestedModificationValue = 0
         /\ now <= ag.dueDate)
        => /\ userReputations'[ag.borrower].currentReputationScore
                = userReputations[ag.borrower].currentReputationScore + 8
           /\ userReputations'[ag.lender].currentReputationScore
                = userReputations[ag.lender].currentReputationScore + 4
           /\ userReputations'[ag.lender].modificationsApprovedByLender
                = userReputations[ag.lender].modificationsApprovedByLender + 1]_vars

\* C5: amount_paid never exceeds total_due = principal + floor(principal * rate /
\* 10000), and a repay of more than the remaining due is rejected for every caller.
C5_NeverOverpaid ==
    \A a \in DOMAIN loanAgreements :
        LET ag == loanAgreements[a] IN
        /\ calculateTotalDue(ag) = TotalDueOf(ag)
        /\ ag.amountPaid <= TotalDueOf(ag)
        /\ \A c \in Users, p \in PaymentAmounts :
                p > TotalDueOf(ag) - ag.amountPaid => repayLoanError(c, a, p) # ""

\* C5 witness: a partly repaid agreement whose borrower is refused one unit more
\* than the remaining due.
C5_Witness ==
    \E a \in DOMAIN loanAgreements :
        LET ag == loanAgreements[a] IN
        /\ ag.amountPaid > 0
        /\ ag.amountPaid < TotalDueOf(ag)
        /\ TotalDueOf(ag) > ag.principalAmount
        /\ repayLoanError(ag.borrower, a, TotalDueOf(ag) - ag.amountPaid + 1)
                = "P2PL: Payment exceeds remaining due"

\* C6: a Repaid agreement is fully paid and its collateral is back with the
\* borrower, once: P2PLending holds exactly what its open offers and live
\* agreements account for, and every user's balance of the collateral token is the
\* minted amount less the collateral they have escrowed or lost to a default plus
\* the collateral they seized as lender.
C6_RepaidReleasedCollateral ==
    \A a \in DOMAIN loanAgreements :
        LET ag == loanAgreements[a]
            posted(u) == SumSeq([i \in DOMAIN loanAgreements |->
                            IF loanAgreements[i].borrower = u
                               /\ loanAgreements[i].collateralToken = ag.collateralToken
                               /\ loanAgreements[i].status \in LiveStatuses \cup {Defaulted}
                            THEN loanAgreements[i].collateralAmount ELSE 0])
            seized(u) == SumSeq([i \in DOMAIN loanAgreements |->
                            IF loanAgreements[i].lender = u
                               /\ loanAgreements[i].collateralToken = ag.collateralToken
                               /\ loanAgreements[i].status = Defaulted
                            THEN loanAgreements[i].collateralAmount ELSE 0])
        IN ag.status = Repaid =>
            /\ ag.amountPaid >= TotalDueOf(ag)
            /\ ag.collateralAmount > 0 =>
                /\ balances[ag.collateralToken][P2PLendingAddress]
                        = EscrowedInLending(ag.collateralToken)
                /\ \A u \in Users : balances[ag.collateralToken][u]
                        = InitialMint - posted(u) + seized(u)

\* C6 witness: a collateralized agreement has been repaid.
C6_Witness ==
    \E a \in DOMAIN loanAgreements :
        /\ loanAgreements[a].status = Repaid
        /\ loanAgreements[a].collateralAmount > 0

\* C9: for every token, P2PLending's balance covers the open offers in that token
\* plus the collateral of the agreements in a live status.
C9_LendingCustody ==
    \A t \in Tokens : balances[t][P2PLendingAddress] >= EscrowedInLending(t)

\* C9 witness: a collateralized agreement formed by accepting an offer is live.
C9_Witness ==
    \E a \in DOMAIN loanAgreements :
        /\ loanAgreements[a].status \in LiveStatuses
        /\ loanAgreements[a].originalOfferId # 0
        /\ loanAgreements[a].collateralAmount > 0
        /\ EscrowedInLending(loanAgreements[a].collateralToken) > 0

\* C10: once an agreement is Repaid every repay on it fails, for every payer and
\* amount, and for the borrower with the wrong-status error.
C10_NoRepayAfterRepaid ==
    \A a \in DOMAIN loanAgreements :
        loanAgreements[a].status = Repaid =>
            \A c \in Users, p \in PaymentAmounts :
                /\ repayLoanError(c, a, p) # ""
                /\ c = loanAgreements[a].borrower
                        => repayLoanError(c, a, p) = "P2PL: Loan not in repayable state"

\* C10 witness: an agreement has been repaid and its outcome recorded for the borrower.
C10_Witness ==
    \E a \in DOMAIN loanAgreements :
        /\ loanAgreements[a].status = Repaid
        /\ userReputations[loanAgreements[a].borrower].loansTaken > 0

\* the slash of a stake written out: a tenth, at least 1, at most the stake
ExpectedSlash(stake) ==
    LET tenth == (stake * 1000) \div 10000
        atLeastOne == IF tenth < 1 THEN 1 ELSE tenth
    IN IF atLeastOne > stake THEN stake ELSE atLeastOne

\* the stake user v has in active vouches, over all borrowers
ActiveStakeGivenBy(v) ==
    SumOver(Users, [b \in Users |->
        IF activeVouches[v][b].isActive THEN activeVouches[v][b].stakedAmount ELSE 0])

\* the stake held in token t by active vouches, over all pairs
ActiveStakeIn(t) ==
    SumOver(Users \X Users, [pr \in Users \X Users |->
        IF activeVouches[pr[1]][pr[2]].isActive /\ activeVouches[pr[1]][pr[2]].tokenAddress = t
        THEN activeVouches[pr[1]][pr[2]].stakedAmount ELSE 0])

\* C3: a successful handle_default slashes each vouch active for the borrower
\* exactly once: the stake drops by max(1, floor(stake / 10)) capped at the stake,
\* the voucher's score by 20, times_defaulted_as_voucher rises by 1, and the lender
\* receives exactly the slashed amounts (and the collateral).
C3_EachVouchSlashedOnce ==
    [][\A a \in DOMAIN loanAgreements :
        LET ag == loanAgreements[a]
            slashedIn(t) == SumOver(Users, [v \in Users |->
                IF activeVouches[v][ag.borrower].isActive
                   /\ activeVouches[v][ag.borrower].tokenAddress = t
                THEN ExpectedSlash(activeVouches[v][ag.borrower].stakedAmount) ELSE 0])
            seizedIn(t) == IF ag.collateralToken = t THEN ag.collateralAmount ELSE 0
        IN DefaultsNow(a) =>
            /\ \A v \in Users :
                LET vouch == activeVouches[v][ag.borrower] IN
                vouch.isActive =>
                    /\ activeVouches'[v][ag.borrower].stakedAmount
                            = vouch.stakedAmount - ExpectedSlash(vouch.stakedAmount)
                    /\ userReputations'[v].currentReputationScore
                            = userReputations[v].currentReputationScore - 20
                    /\ userReputations'[v].timesDefaultedAsVoucher
                            = userReputations[v].timesDefaultedAsVoucher + 1
            /\ \A t \in Tokens :
                balances'[t][ag.lender]
                    = balances[t][ag.lender] + slashedIn(t) + seizedIn(t)]_vars

\* C7: every account's vouching_stake_active is the sum of staked_amount over the
\* active vouches it has given.
C7_StakeMatchesActiveVouches ==
    \A v \in Users : userReputations[v].vouchingStakeAmount = ActiveStakeGivenBy(v)

\* C7 witness: a voucher was slashed and still has stake in an active vouch.
C7_Witness ==
    \E v \in Users, b \in Users :
        /\ activeVouches[v][b].isActive
        /\ userReputations[v].timesDefaultedAsVoucher > 0
        /\ userReputations[v].timesVouchedForOthers > 1
        /\ userReputations[v].vouchingStakeAmount > 0

\* C8: for every token, Reputation's balance covers the stake of the active
\* vouches in that token.
C8_ReputationCustody ==
    \A t \in Tokens : balances[t][ReputationAddress] >= ActiveStakeIn(t)

\* C8 witness: a vouch has been slashed and the rest of its stake is still escrowed.
C8_Witness ==
    \E v \in Users, b \in Users :
        /\ activeVouches[v][b].isActive
        /\ userReputations[v].timesDefaultedAsVoucher > 0
        /\ activeVouches[v][b].stakedAmount < BigStake
        /\ balances[activeVouches[v][b].tokenAddress][ReputationAddress] > 0

\* the lender approves agreement a's pending request of type t in this step
ApprovesNow(a, t) ==
    /\ a \in DOMAIN loanAgreements
    /\ loanAgreements[a].status = PendingModificationApproval
    /\ loanAgreements[a].requestedModificationType = t
    /\ ~loanAgreements[a].modificationApprovedByLender
    /\ loanAgreements'[a].modificationApprovedByLender

\* C11: every approval of a DueDateExtension strictly increases due_date, and
\* due_date never decreases in any step.
C11_DueDateMonotone ==
    [][\A a \in DOMAIN loanAgreements :
        /\ loanAgreements'[a].dueDate >= loanAgreements[a].dueDate
        /\ ApprovesNow(a, DueDateExtension)
                => loanAgreements'[a].dueDate > loanAgreements[a].dueDate]_vars

\* C11 witness: an approved extension has moved the due date past the original one.
C11_Witness ==
    \E a \in DOMAIN loanAgreements :
        LET ag == loanAgreements[a] IN
        /\ ag.requestedModificationType = DueDateExtension
        /\ ag.modificationApprovedByLender
        /\ ag.dueDate > ag.startTime + ag.durationSeconds

\* every address that can be a caller, contracts and the zero address included
AllSenders == Callers \cup {P2PLendingAddress, ReputationAddress, ZeroAddress}

\* the three gated functions refuse every sender but the configured authority
GatedNow ==
    LET st == [vouches |-> activeVouches, reps |-> userReputations, bal |-> balances] IN
    \A s \in AllSenders :
        s # p2pLendingContractAddress =>
            /\ recordLoanPaymentOutcomeError(s) # ""
            /\ updateReputationOnLoanDefaultError(s) # ""
            /\ \A v \in Users, b \in Users, amt \in SlashAmounts \cup {BigStake} :
                    slashVouchAndReputationError(st, s, v, b, amt) # ""

\* the setter refuses a caller who is not the owner, and the zero address
SetterGuarded ==
    \A c \in AllSenders, a \in AuthorityChoices :
        (c # owner \/ a = ZeroAddress) => setP2PLendingContractAddressError(c, a) # ""

\* C12: record_loan_payment_outcome, record_loan_default and
\* slash_vouch_and_reputation fail for every caller other than the configured
\* lending authority; the setter fails for a non-owner and for the zero address;
\* the authority changes only in a step of the owner's setter, to a non-zero address.
C12_AuthorityGating ==
    /\ [](GatedNow /\ SetterGuarded)
    /\ [][p2pLendingContractAddress' # p2pLendingContractAddress
            => \E a \in AuthorityChoices \ {ZeroAddress} :
                    setP2PLendingContractAddress(owner, a)]_vars

\* C12 witness: ownership has moved, the new owner has configured an authority,
\* and that authority has recorded a default and slashed a vouch.
C12_Witness ==
    /\ owner # Deployer
    /\ p2pLendingContractAddress \notin {ZeroAddress, P2PLendingAddress}
    /\ userReputations["bob"].loansDefaulted > 0
    /\ userReputations["carol"].timesDefaultedAsVoucher > 0

\* the classifier as a list of rules, the first that matches wins
FirstMatchingRule(t, dueDate, typeBefore, approvedBefore) ==
    CASE t <= dueDate /\ approvedBefore /\ typeBefore = DueDateExtension -> OnTimeExtended
      [] t <= dueDate /\ approvedBefore /\ typeBefore = PartialPaymentAgreement
            -> PartialAgreementMetAndRepaid
      [] t <= dueDate /\ ~(approvedBefore /\ typeBefore \in {DueDateExtension,
                                                            PartialPaymentAgreement})
            -> OnTimeOriginal
      [] t > dueDate /\ approvedBefore /\ typeBefore = DueDateExtension -> LateExtended
      [] t > dueDate /\ ~(approvedBefore /\ typeBefore = DueDateExtension)
            -> LateGraceOriginal

\* the borrower's points for each outcome of a settlement
BorrowerPoints(o) ==
    CASE o = OnTimeOriginal -> 10
      [] o = LateGraceOriginal -> 3
      [] o = OnTimeExtended -> 7
      [] o = LateExtended -> 2
      [] o = PartialAgreementMetAndRepaid -> 8
      [] OTHER -> 0

\* C13: in every settling repayment the outcome handed to Reputation is the first
\* matching rule for (now, due_date, modification type before, approval before), one
\* of the five settlement outcomes and never None or Defaulted: the classifier
\* returns it and the borrower's score moves by that outcome's points.
C13_ClassifierFirstMatch ==
    [][\A a \in DOMAIN loanAgreements :
        LET ag == loanAgreements[a]
            rule == FirstMatchingRule(now, ag.dueDate, ag.requestedModificationType,
                                      ag.modificationApprovedByLender)
        IN SettlesNow(a) =>
            /\ classifyOutcome(now, ag.dueDate, ag.modificationApprovedByLender,
                               ag.requestedModificationType) = rule
            /\ rule \notin {OutcomeNone, OutcomeDefaulted}
            /\ userReputations'[ag.borrower].currentReputationScore
                    = userReputations[ag.borrower].currentReputationScore
                        + BorrowerPoints(rule)]_vars

\* C13 witness: a loan with an approved extension has been settled after the
\* extended due date (rule 4).
C13_Witness ==
    \E a \in DOMAIN loanAgreements :
        LET ag == loanAgreements[a] IN
        /\ ag.status = Repaid
        /\ ag.requestedModificationType = DueDateExtension
        /\ ag.modificationApprovedByLender
        /\ ag.dueDate > ag.startTime + ag.durationSeconds
        /\ userReputations[ag.borrower].loansRepaidLateGrace = 1
        /\ userReputations[ag.borrower].currentReputationScore = 2

\* C14: a loan whose DueDateExtension the lender approved, settled at a time not
\* later than the extended due_date with no request since, is recorded as
\* OnTimeExtended: borrower +7, lender +3+2 = +5, the lender's
\* modifications_approved_by_lender +1 and its rejections unchanged.
C14_OnTimeExtendedOutcome ==
    [][\A a \in DOMAIN loanAgreements :
        LET ag == loanAgreements[a]
            b == ag.borrower
            l == ag.lender
        IN (/\ SettlesNow(a)
            /\ ag.requestedModificationType = DueDateExtension
            /\ ag.modificationApprovedByLender
            /\ now <= ag.dueDate)
           => /\ userReputations'[b].currentReputationScore
                    = userReputations[b].currentReputationScore + 7
              /\ userReputations'[b].loansRepaidOnTime
                    = userReputations[b].loansRepaidOnTime + 1
              /\ userReputations'[l].currentReputationScore
                    = userReputations[l].currentReputationScore + 5
              /\ userReputations'[l].modificationsApprovedByLender
                    = userReputations[l].modificationsApprovedByLender + 1
              /\ userReputations'[l].modificationsRejectedByLender
                    = userReputations[l].modificationsRejectedByLender]_vars

\* C14 witness: an extended loan has been settled within the extended due date,
\* after the original one.
C14_Witness ==
    \E a \in DOMAIN loanAgreements :
        LET ag == loanAgreements[a] IN
        /\ ag.status = Repaid
        /\ ag.requestedModificationType = DueDateExtension
        /\ ag.modificationApprovedByLender
        /\ now <= ag.dueDate
        /\ now > ag.startTime + ag.durationSeconds
        /\ userReputations[ag.borrower].currentReputationScore = 7
        /\ userReputations[ag.lender].currentReputationScore = 5

\* the loan tokens of token t that user u has locked in open offers
OfferedBy(u, t) ==
    SumSeq([i \in DOMAIN loanOffers |->
        IF loanOffers[i].lender = u /\ loanOffers[i].token = t
           /\ loanOffers[i].isActive /\ ~loanOffers[i].isFulfilled
        THEN loanOffers[i].amount ELSE 0])

\* what the agreements other than a have moved into u's balance of token t so far:
\* principal and repayments (no agreement posts collateral in a loan token here)
OtherLoanFlows(u, t, a) ==
    SumSeq([i \in DOMAIN loanAgreements |->
        IF i = a \/ loanAgreements[i].loanToken # t THEN 0
        ELSE (IF loanAgreements[i].borrower = u
              THEN loanAgreements[i].principalAmount - loanAgreements[i].amountPaid ELSE 0)
           + (IF loanAgreements[i].lender = u
              THEN loanAgreements[i].amountPaid - loanAgreements[i].principalAmount ELSE 0)])

\* C15: an uncollateralized agreement formed by accept_offer, with no modification
\* ever requested, whose last payment arrives at now <= due_date: the payment that
\* completes total_due makes it Repaid, borrower +10, lender +5, and over its whole
\* life the agreement has moved +interest to the lender and -interest to the
\* borrower, interest = floor(principal * rate_bps / 10000).
C15_PlainLoanRepaidOnTime ==
    [][\A a \in DOMAIN loanAgreements :
        LET ag == loanAgreements[a]
            b == ag.borrower
            l == ag.lender
            t == ag.loanToken
            interest == (ag.principalAmount * ag.interestRateBPS) \div 10000
            net(u) == balances'[t][u]
                        - (InitialMint - OfferedBy(u, t) + OtherLoanFlows(u, t, a))
        IN (/\ ag.originalOfferId # 0
            /\ ag.collateralAmount = 0
            /\ ag.requestedModificationType = DueDateExtension
            /\ ag.requestedModificationValue = 0
            /\ ~ag.modificationApprovedByLender
            /\ ag.status = Active
            /\ now <= ag.dueDate
            /\ loanAgreements'[a].amountPaid > ag.amountPaid
            /\ loanAgreements'[a].amountPaid >= ag.principalAmount + interest)
           => /\ loanAgreements'[a].status = Repaid
              /\ loanAgreements'[a].amountPaid = ag.principalAmount + interest
              /\ userReputations'[b].currentReputationScore
                    = userReputations[b].currentReputationScore + 10
              /\ userReputations'[l].currentReputationScore
                    = userReputations[l].currentReputationScore + 5
              /\ net(l) = interest
              /\ net(b) = -interest]_vars

\* C15 witness: a plain uncollateralized loan from an offer, with interest, has been
\* repaid on time and scored.
C15_Witness ==
    \E a \in DOMAIN loanAgreements :
        LET ag == loanAgreements[a] IN
        /\ ag.status = Repaid
        /\ ag.originalOfferId # 0
        /\ ag.collateralAmount = 0
        /\ ag.requestedModificationType = DueDateExtension
        /\ ag.requestedModificationValue = 0
        /\ ag.amountPaid > ag.principalAmount
        /\ balances[ag.loanToken][ag.lender] > InitialMint
        /\ userReputations[ag.borrower].currentReputationScore = 10
        /\ userReputations[ag.lender].currentReputationScore = 5

\* C16: a partial repayment on an Active agreement leaves it Active when
\* now <= due_date and makes it Overdue when now > due_date; a loan with no
\* approved modification that is settled at now > due_date is recorded as
\* LateGraceOriginal: borrower +3, lender +3.
C16_LatePartialThenGrace ==
    [][\A a \in DOMAIN loanAgreements :
        LET ag == loanAgreements[a]
            b == ag.borrower
            l == ag.lender
        IN /\ (/\ ag.status = Active
               /\ loanAgreements'[a].amountPaid > ag.amountPaid
               /\ loanAgreements'[a].amountPaid < TotalDueOf(ag))
              => loanAgreements'[a].status = IF now <= ag.dueDate THEN Active ELSE Overdue
           /\ (/\ SettlesNow(a)
               /\ ag.status \in {Active, Overdue}
               /\ ~ag.modificationApprovedByLender
               /\ now > ag.dueDate)
              => /\ userReputations'[b].currentReputationScore
                        = userReputations[b].currentReputationScore + 3
                 /\ userReputations'[b].loansRepaidLateGrace
                        = userReputations[b].loansRepaidLateGrace + 1
                 /\ userReputations'[l].currentReputationScore
                        = userReputations[l].currentReputationScore + 3]_vars

\* C16 witness: a loan on which nothing was requested has been settled after its
\* due date and scored as late.
C16_Witness ==
    \E a \in DOMAIN loanAgreements :
        LET ag == loanAgreements[a] IN
        /\ ag.status = Repaid
        /\ ag.requestedModificationType = DueDateExtension
        /\ ag.requestedModificationValue = 0
        /\ now > ag.dueDate
        /\ userReputations[ag.borrower].loansRepaidLateGrace = 1
        /\ userReputations[ag.borrower].currentReputationScore = 3
        /\ userReputations[ag.lender].currentReputationScore = 3

\* C17: respond_to_modification, approving or rejecting, changes no reputation
\* profile and moves no tokens; a rejection leaves due_date, amount_paid, principal
\* and collateral of the agreement unchanged and modification_approved_by_lender
\* false.
C17_RespondFrame ==
    [][\A c \in Users, a \in AgreementIds, ok \in BOOLEAN :
        respondToPaymentModification(c, a, ok) =>
            /\ userReputations' = userReputations
            /\ balances' = balances
            /\ ~ok =>
                /\ loanAgreements'[a].dueDate = loanAgreements[a].dueDate
                /\ loanAgreements'[a].amountPaid = loanAgreements[a].amountPaid
                /\ loanAgreements'[a].principalAmount = loanAgreements[a].principalAmount
                /\ loanAgreements'[a].collateralAmount = loanAgreements[a].collateralAmount
                /\ loanAgreements'[a].collateralToken = loanAgreements[a].collateralToken
                /\ ~loanAgreements'[a].modificationApprovedByLender]_vars

\* C17 witness: a requested extension has been rejected: the agreement is out of
\* PendingModificationApproval with the requested date still later than due_date.
C17_Witness ==
    \E a \in DOMAIN loanAgreements :
        LET ag == loanAgreements[a] IN
        /\ ag.status \in {Active, Overdue}
        /\ ag.requestedModificationType = DueDateExtension
        /\ ag.requestedModificationValue > ag.dueDate
        /\ ~ag.modificationApprovedByLender
        /\ ag.collateralAmount > 0

\* C18: a successful handle_default sets the agreement to Defaulted, moves its whole
\* collateral from Lending to the lender and nothing to the borrower, changes the
\* borrower's score by -50 and raises the borrower's loans_taken and loans_defaulted
\* by 1; handle_default fails while now <= due_date.
C18_DefaultEffects ==
    /\ [](\A a \in DOMAIN loanAgreements :
            now <= loanAgreements[a].dueDate => handleP2PDefaultError(a) # "")
    /\ [][\A a \in DOMAIN loanAgreements :
            LET ag == loanAgreements[a]
                b == ag.borrower
                l == ag.lender
                seized(t) == IF ag.collateralToken = t THEN ag.collateralAmount ELSE 0
            IN (\E c \in Users : handleP2PDefault(c, a)) =>
                /\ loanAgreements'[a].status = Defaulted
                /\ now > ag.dueDate
                /\ \A t \in Tokens :
                    /\ balances'[t][l] = balances[t][l] + seized(t)
                    /\ balances'[t][P2PLendingAddress]
                            = balances[t][P2PLendingAddress] - seized(t)
                    /\ balances'[t][b] = balances[t][b]
                /\ userReputations'[b].currentReputationScore
                        = userReputations[b].currentReputationScore - 50
                /\ userReputations'[b].loansTaken = userReputations[b].loansTaken + 1
                /\ userReputations'[b].loansDefaulted
                        = userReputations[b].loansDefaulted + 1]_vars

\* C18 witness: a collateralized agreement has been defaulted and the lender holds
\* the collateral.
C18_Witness ==
    \E a \in DOMAIN loanAgreements :
        LET ag == loanAgreements[a] IN
        /\ ag.status = Defaulted
        /\ ag.collateralAmount > 0
        /\ balances[ag.collateralToken][ag.lender] = InitialMint + ag.collateralAmount
        /\ userReputations[ag.borrower].currentReputationScore = -50
        /\ userReputations[ag.borrower].loansDefaulted = 1

\* the agreements formed from offer o, and from request r
AgreementsOfOffer(o) == {a \in DOMAIN loanAgreements : loanAgreements[a].originalOfferId = o}
AgreementsOfRequest(r) ==
    {a \in DOMAIN loanAgreements : loanAgreements[a].originalRequestId = r}

\* C19: each offer and each request forms at most one agreement: once accepted
\* (funded) it is fulfilled and inactive and every later accept_offer
\* (fund_request) on it fails; accept_offer moves the offer's principal out of
\* Lending to the accepting borrower, and Lending never holds more or less than its
\* open offers and live collateral.
C19_OneAgreementPerListing ==
    /\ [](/\ \A o \in DOMAIN loanOffers :
                /\ Cardinality(AgreementsOfOffer(o)) <= 1
                /\ AgreementsOfOffer(o) # {} =>
                    /\ loanOffers[o].isFulfilled
                    /\ ~loanOffers[o].isActive
                    /\ \A c \in Users, k \in CollateralChoices :
                            acceptLoanOfferError(c, o, k[1], k[2]) = "P2PL: Offer not active"
          /\ \A r \in DOMAIN loanRequests :
                /\ Cardinality(AgreementsOfRequest(r)) <= 1
                /\ AgreementsOfRequest(r) # {} =>
                    /\ loanRequests[r].isFulfilled
                    /\ ~loanRequests[r].isActive
                    /\ \A c \in Users : fundLoanRequestError(c, r) = "P2PL: Request not active"
          /\ \A t \in Tokens : balances[t][P2PLendingAddress] = EscrowedInLending(t))
    /\ [][\A c \in Users, o \in DOMAIN loanOffers, k \in CollateralChoices :
            LET offer == loanOffers[o]
                pulled(t) == IF k[2] = t THEN k[1] ELSE 0
            IN acceptLoanOffer(c, o, k[1], k[2]) =>
                /\ AgreementsOfOffer(o) = {}
                /\ balances'[offer.token][c]
                        = balances[offer.token][c] + offer.amount - pulled(offer.token)
                /\ balances'[offer.token][P2PLendingAddress]
                        = balances[offer.token][P2PLendingAddress] - offer.amount
                                + pulled(offer.token)
                /\ balances'[offer.token][offer.lender] = balances[offer.token][offer.lender]]_vars

\* C19 witness: a collateralized offer has been accepted and its principal is with
\* the borrower.
C19_Witness ==
    \E o \in DOMAIN loanOffers :
        /\ loanOffers[o].isFulfilled
        /\ loanOffers[o].requiredCollateralAmount > 0
        /\ \E a \in AgreementsOfOffer(o) :
                /\ loanAgreements[a].status = Active
                /\ loanAgreements[a].amountPaid = 0
                /\ balances[loanOffers[o].token][loanAgreements[a].borrower]
                        = InitialMint + loanOffers[o].amount

\* the registry list holds exactly the registered addresses, each once
ListsRegisteredOnce ==
    /\ \A u \in Users : isUserRegistered[u] <=> \E i \in DOMAIN registeredUsers :
                                                    registeredUsers[i] = u
    /\ \A i, j \in DOMAIN registeredUsers :
            registeredUsers[i] = registeredUsers[j] => i = j

\* C20: registration is one-shot and permanent: register fails for a registered
\* caller and for an empty or over-50-byte name; update_name fails for an
\* unregistered caller; a registered address stays registered; total_registered is
\* the length of the registry list, which holds every registered address exactly
\* once, in registration order (the list only grows, at its end, by the registrant).
C20_RegistrationOneShot ==
    /\ [](/\ \A c \in Users, n \in Names :
                (isUserRegistered[c] \/ Len(n) = 0 \/ Len(n) > 50)
                    => registerUserError(c, n) # ""
          /\ \A c \in Users, n \in Names :
                ~isUserRegistered[c] => updateProfileError(c, n) # ""
          /\ totalUsers = Len(registeredUsers)
          /\ ListsRegisteredOnce
          /\ \A i, j \in DOMAIN registeredUsers :
                i < j => registrationTime[registeredUsers[i]]
                            <= registrationTime[registeredUsers[j]])
    /\ [][/\ \A u \in Users : isUserRegistered[u] => isUserRegistered'[u]
          /\ \/ registeredUsers' = registeredUsers
             \/ \E u \in Users :
                    /\ ~isUserRegistered[u]
                    /\ isUserRegistered'[u]
                    /\ registeredUsers' = Append(registeredUsers, u)]_vars

\* C20 witness: all three users have registered, carol first, and a name of exactly
\* 50 bytes is on record for a user who registered under another name.
C20_Witness ==
    /\ Len(registeredUsers) = 3
    /\ registeredUsers[1] = "carol"
    /\ registrationTime["carol"] < registrationTime["alice"]
    /\ userNames["carol"] = Name50
    /\ userNames["alice"] = "a"

\* ---------------------------------------------------------------- C21..C30
\* the five outcomes a settlement can record
SettlementOutcomes ==
    {OnTimeOriginal, LateGraceOriginal, OnTimeExtended, LateExtended,
     PartialAgreementMetAndRepaid}

\* the lender's base points for each settlement outcome
LenderBasePoints(o) == IF o = OnTimeOriginal THEN 5 ELSE 3

\* the lender's add-on for how a modification request was handled
LenderAddOn(t, ok) ==
    IF ok /\ t = DueDateExtension THEN 2
    ELSE IF ok /\ t = PartialPaymentAgreement THEN 1
    ELSE 0

\* the reason that replaces the lender's base reason
HandlingReason == "Loan outcome and modification handling for lender"

\* C21: for every settlement outcome, every modification type and both values
\* of lender_approved, a call of record_loan_payment_outcome that goes through
\* moves the borrower's score by the table delta, the lender's score by base
\* plus add-on, counts the loan and its principal on both profiles, counts a
\* rejected modification exactly when not approved and the type is not None, and
\* gives the lender's events the handling reason exactly when the add-on is not 0.
C21_OutcomeBookkeeping ==
    [][\A c \in Callers, o \in SettlementOutcomes, t \in PaymentModificationType,
          ok \in BOOLEAN :
        recordLoanPaymentOutcomeCall(c, 1, "bob", "alice", LoanAmount, o, t, ok) =>
            LET b == userReputations["bob"]
                b2 == userReputations'["bob"]
                l == userReputations["alice"]
                l2 == userReputations'["alice"]
                lenderEvents == {i \in DOMAIN events' : events'[i].user = "alice"}
            IN /\ b2.currentReputationScore = b.currentReputationScore + BorrowerPoints(o)
               /\ l2.currentReputationScore
                    = l.currentReputationScore + LenderBasePoints(o) + LenderAddOn(t, ok)
               /\ b2.loansTaken = b.loansTaken + 1
               /\ b2.totalValueBorrowed = b.totalValueBorrowed + LoanAmount
               /\ l2.loansGiven = l.loansGiven + 1
               /\ l2.totalValueLent = l.totalValueLent + LoanAmount
               /\ l2.modificationsRejectedByLender
                    = l.modificationsRejectedByLender
                        + (IF ~ok /\ t # ModNone THEN 1 ELSE 0)
               /\ lenderEvents # {}
               /\ \A i \in lenderEvents :
                    (events'[i].reason = HandlingReason) <=> (LenderAddOn(t, ok) # 0)]_vars

\* C21 witness: the authority has recorded an OnTimeOriginal outcome with an
\* approved partial agreement (lender +5 +1, handling reason) after an outcome
\* whose modification was not approved (rejection counted).
C21_Witness ==
    /\ userReputations["alice"].modificationsRejectedByLender = 1
    /\ \E i \in DOMAIN events :
        /\ events[i].name = "LoanTermOutcomeRecorded"
        /\ events[i].user = "alice"
        /\ events[i].outcomeType = OnTimeOriginal
        /\ events[i].reputationChange = 6
        /\ events[i].reason = HandlingReason

\* the (name, user) pairs of the logged events, in order
EventHeads(log) == [i \in DOMAIN log |-> <<log[i].name, log[i].user>>]

CollateralSeized(agreementId, token, amount, seizedBy) ==
    [name |-> "CollateralSeized", agreementId |-> agreementId, token |-> token,
     amount |-> amount, seizedBy |-> seizedBy]

\* C23: a handle_default that goes through logs LoanAgreementDefaulted, then,
\* exactly when the agreement holds collateral, one CollateralSeized(agreement,
\* collateral token, collateral amount, lender), then ReputationUpdated(borrower,
\* "Loan defaulted"), then for each slashed vouch VouchSlashed followed by
\* ReputationUpdated(voucher).
C23_DefaultEventSequence ==
    [][\A a \in DOMAIN loanAgreements :
        DefaultsNow(a) =>
            LET ag == loanAgreements[a]
                withCollateral == ag.collateralAmount > 0
                seized == {i \in DOMAIN events' : events'[i].name = "CollateralSeized"}
                first == IF withCollateral THEN 3 ELSE 2
                rest == SubSeq(events', first, Len(events'))
            IN /\ events'[1] = LoanAgreementDefaulted(a)
               /\ IF withCollateral
                  THEN /\ seized = {2}
                       /\ events'[2] = CollateralSeized(a, ag.collateralToken,
                                                        ag.collateralAmount, ag.lender)
                  ELSE seized = {}
               /\ Len(rest) >= 1
               /\ rest[1].name = "ReputationUpdated"
               /\ rest[1].user = ag.borrower
               /\ rest[1].reason = "Loan defaulted"
               /\ Len(rest) % 2 = 1
               /\ \A i \in 2..Len(rest) :
                    IF i % 2 = 0
                    THEN rest[i].name = "VouchSlashed"
                    ELSE /\ rest[i].name = "ReputationUpdated"
                         /\ rest[i].user = rest[i - 1].voucher]_vars

\* C24: every respond_to_modification that goes through leaves the agreement
\* Active, Overdue or Active_PartialPaymentAgreed, whatever type was requested,
\* and no agreement is marked approved while its requested type is None.
C24_RespondLeavesPending ==
    /\ [](\A a \in DOMAIN loanAgreements :
            ~(loanAgreements[a].modificationApprovedByLender
              /\ loanAgreements[a].requestedModificationType = ModNone))
    /\ [][\A c \in Users, a \in AgreementIds, ok \in BOOLEAN :
            respondToPaymentModification(c, a, ok) =>
                loanAgreements'[a].status
                    \in {Active, Overdue, Active_PartialPaymentAgreed}]_vars

\* C25: whatever vouches the borrower has received, added, withdrawn, added
\* again or slashed before, handle_default goes through on every Active
\* agreement that is past its due date and not fully paid.
C25_DefaultNotBlockedByVouches ==
    \A a \in DOMAIN loanAgreements :
        LET ag == loanAgreements[a]
        IN (/\ ag.status = Active
            /\ now > ag.dueDate
            /\ ag.amountPaid < calculateTotalDue(ag))
           => handleP2PDefaultError(a) = ""

\* C26: a repayment or a response that leaves an agreement in status Overdue
\* does so strictly after the due date in force after the call; at
\* now = due_date the agreement is not made Overdue.
C26_OverdueOnlyPastDue ==
    [][\A a \in DOMAIN loanAgreements :
        (/\ loanAgreements'[a] # loanAgreements[a]
         /\ loanAgreements'[a].status = Overdue)
        => now > loanAgreements'[a].dueDate]_vars

\* an agreement on which requestPaymentModification has never gone through: it
\* still holds the fields written at creation (a request stores a value > 0, and
\* only a met partial agreement, of type PartialPaymentAgreement, zeroes it again)
NeverRequested(ag) ==
    /\ ag.requestedModificationType = DueDateExtension
    /\ ag.requestedModificationValue = 0
    /\ ~ag.modificationApprovedByLender

\* C27: settling an agreement on which request_modification was never called
\* leaves the lender's modifications_approved_by_lender and
\* modifications_rejected_by_lender as they were.
C27_NoRequestNoModificationCount ==
    [][\A a \in DOMAIN loanAgreements :
        LET ag == loanAgreements[a]
        IN (SettlesNow(a) /\ NeverRequested(ag)) =>
            /\ userReputations'[ag.lender].modificationsApprovedByLender
                    = userReputations[ag.lender].modificationsApprovedByLender
            /\ userReputations'[ag.lender].modificationsRejectedByLender
                    = userReputations[ag.lender].modificationsRejectedByLender]_vars

\* C28: a settlement records the outcome OnTimeOriginal only at or before the
\* agreement's original due date start_time + duration_seconds.
C28_OnTimeOriginalByOriginalDueDate ==
    [][\A a \in DOMAIN loanAgreements :
        LET ag == loanAgreements[a]
        IN (/\ SettlesNow(a)
            /\ \E i \in DOMAIN events' :
                /\ events'[i].name = "LoanTermOutcomeRecorded"
                /\ events'[i].agreementId = a
                /\ events'[i].outcomeType = OnTimeOriginal)
           => now <= ag.startTime + ag.durationSeconds]_vars

\* the stake a (voucher, borrower) slot holds while its vouch is active
LiveStake(vouch) == IF vouch.isActive THEN vouch.stakedAmount ELSE 0

\* what the log says was slashed from, returned to and deposited by the vouch
\* of v for b
SlashedIn(log, v, b) ==
    SumSeq([i \in DOMAIN log |->
        IF log[i].name = "VouchSlashed" /\ log[i].voucher = v
           /\ log[i].defaultingBorrower = b
        THEN log[i].slashedAmount ELSE 0])

ReturnedIn(log, v, b) ==
    SumSeq([i \in DOMAIN log |->
        IF log[i].name = "VouchRemoved" /\ log[i].voucher = v /\ log[i].borrower = b
        THEN log[i].returnedAmount ELSE 0])

DepositedIn(log, v, b) ==
    SumSeq([i \in DOMAIN log |->
        IF log[i].name = "VouchAdded" /\ log[i].voucher = v /\ log[i].borrower = b
        THEN log[i].amount ELSE 0])

\* C29: stake is conserved per vouch.  In every transaction the live stake of
\* each (voucher, borrower) vouch changes by what was deposited minus what was
\* slashed to lenders and returned by remove_vouch, and Reputation's token
\* balance moves by the same amounts; remove_vouch pays the caller exactly the
\* remaining staked_amount and leaves the vouch inactive, and an inactive vouch
\* cannot be withdrawn.
C29_StakeConservedPerVouch ==
    /\ [](\A v \in Users, b \in Users :
            ~activeVouches[v][b].isActive => removeVouchError(v, b) # "")
    /\ [][now' = now =>
            /\ \A v \in Users, b \in Users :
                LiveStake(activeVouches'[v][b])
                    = LiveStake(activeVouches[v][b]) + DepositedIn(events', v, b)
                        - SlashedIn(events', v, b) - ReturnedIn(events', v, b)
            /\ \A t \in Tokens :
                LET moved(Amount(_, _, _), slots) ==
                        SumOver(Users \X Users, [pr \in Users \X Users |->
                            IF slots[pr[1]][pr[2]].tokenAddress = t
                            THEN Amount(events', pr[1], pr[2]) ELSE 0])
                IN balances'[t][ReputationAddress]
                    = balances[t][ReputationAddress]
                        + moved(DepositedIn, activeVouches')
                        - moved(SlashedIn, activeVouches)
                        - moved(ReturnedIn, activeVouches)
            /\ \A v \in Users, b \in Users :
                removeVouch(v, b) =>
                    /\ ~activeVouches'[v][b].isActive
                    /\ balances'[activeVouches[v][b].tokenAddress][v]
                        = balances[activeVouches[v][b].tokenAddress][v]
                            + activeVouches[v][b].stakedAmount]_vars

\* C29 witness: a vouch of BigStake was slashed in a default and the voucher
\* then withdrew what was left of it.
C29_Witness ==
    \E i \in DOMAIN events :
        /\ events[i].name = "VouchRemoved"
        /\ events[i].returnedAmount = BigStake - ExpectedSlash(BigStake)
        /\ ~activeVouches[events[i].voucher][events[i].borrower].isActive

\* C30: the (voucher, borrower) map holds at most one active vouch per pair, so
\* the stakes of the active vouches account for every token Reputation holds;
\* every active vouch has staked_amount > 0, a voucher other than the borrower
\* and both parties registered; add_vouch fails for a pair whose vouch is
\* active; and a default that slashes a vouch down to zero leaves it inactive.
C30_OneActiveVouchPerPair ==
    /\ [](/\ \A v \in Users, b \in Users :
                LET vouch == activeVouches[v][b]
                IN vouch.isActive =>
                    /\ vouch.voucher = v
                    /\ vouch.borrower = b
                    /\ vouch.stakedAmount > 0
                    /\ v # b
                    /\ isUserRegistered[v]
                    /\ isUserRegistered[b]
                    /\ \A s \in StakeAmounts, t \in Tokens : addVouchError(v, b, s, t) # ""
          /\ \A t \in Tokens : balances[t][ReputationAddress] = ActiveStakeIn(t))
    /\ [][\A a \in DOMAIN loanAgreements, v \in Users, b \in Users :
            (/\ DefaultsNow(a)
             /\ activeVouches[v][b].isActive
             /\ activeVouches'[v][b].stakedAmount = 0)
            => ~activeVouches'[v][b].isActive]_vars

\* C30 witness: a default has slashed one vouch of stake 1 down to zero, which
\* is now inactive, while another vouch for the same borrower is still active.
C30_Witness ==
    \E v \in Users, w \in Users, b \in Users :
        /\ activeVouches[v][b].voucher = v
        /\ activeVouches[v][b].stakedAmount = 0
        /\ ~activeVouches[v][b].isActive
        /\ userReputations[v].timesDefaultedAsVoucher > 0
        /\ activeVouches[w][b].isActive

\* ---------------------------------------------------------------- C31..C38
\* C31: every agreement has exactly one of origin_offer_id / origin_request_id
\* non-zero, a lender and a borrower that are distinct and registered, and a
\* collateral amount that is non-zero exactly when its collateral token is; it is
\* formed with start_time = now and due_date = start_time + duration_seconds;
\* accepting one's own offer and funding one's own request fail.
C31_AgreementWellFormed ==
    /\ [](/\ \A a \in DOMAIN loanAgreements :
                LET ag == loanAgreements[a]
                IN /\ (ag.originalOfferId # 0) # (ag.originalRequestId # 0)
                   /\ ag.lender # ag.borrower
                   /\ isUserRegistered[ag.lender]
                   /\ isUserRegistered[ag.borrower]
                   /\ (ag.collateralAmount > 0) <=> (ag.collateralToken # ZeroAddress)
          /\ \A o \in DOMAIN loanOffers, k \in CollateralChoices :
                acceptLoanOfferError(loanOffers[o].lender, o, k[1], k[2]) # ""
          /\ \A r \in DOMAIN loanRequests :
                fundLoanRequestError(loanRequests[r].borrower, r) # "")
    /\ [][\A a \in DOMAIN loanAgreements' :
            a \notin DOMAIN loanAgreements =>
                /\ loanAgreements'[a].startTime = now
                /\ loanAgreements'[a].dueDate
                    = loanAgreements'[a].startTime + loanAgreements'[a].durationSeconds
                /\ loanAgreements'[a].status = Active
                /\ loanAgreements'[a].amountPaid = 0]_vars

\* C31 witness: bob's collateralized request has been funded by alice after
\* time 0, and the agreement carries the request's id, no offer id and the
\* collateral.
C31_Witness ==
    \E a \in DOMAIN loanAgreements :
        /\ loanAgreements[a].originalOfferId = 0
        /\ loanAgreements[a].originalRequestId # 0
        /\ loanAgreements[a].collateralAmount = CollateralAmount
        /\ loanAgreements[a].lender = "alice"
        /\ loanAgreements[a].borrower = "bob"
        /\ loanAgreements[a].startTime > 0

\* the two terminal statuses of an agreement
TerminalStatuses == {Repaid, Defaulted}

\* C32: Repaid and Defaulted are absorbing.  On an agreement in either status
\* repay, handle_default, request_modification and respond_to_modification fail
\* for every caller and argument, no field of the agreement changes in any step,
\* and scores and counters move only in the step that settles or defaults an
\* agreement, so each agreement changes them at most once.
C32_TerminalAbsorbing ==
    /\ [](\A a \in DOMAIN loanAgreements :
            loanAgreements[a].status \in TerminalStatuses =>
                /\ handleP2PDefaultError(a) # ""
                /\ \A c \in Users :
                    /\ \A p \in PaymentAmounts : repayLoanError(c, a, p) # ""
                    /\ \A r \in ModificationRequests :
                            requestPaymentModificationError(c, a, r[1], r[2]) # ""
                    /\ respondToPaymentModificationError(c, a) # "")
    /\ [][/\ \A a \in DOMAIN loanAgreements :
                loanAgreements[a].status \in TerminalStatuses
                    => loanAgreements'[a] = loanAgreements[a]
          /\ userReputations' # userReputations
                => \E a \in DOMAIN loanAgreements :
                        /\ loanAgreements[a].status \notin TerminalStatuses
                        /\ SettlesNow(a) \/ DefaultsNow(a)]_vars

\* C32 witness: an agreement that received a partial payment was later
\* defaulted, and time has moved on since.
C32_Witness ==
    \E a \in DOMAIN loanAgreements :
        /\ loanAgreements[a].status = Defaulted
        /\ loanAgreements[a].amountPaid > 0
        /\ now > loanAgreements[a].dueDate + 1

C34_RequestAndPending ==
    /\ [](\A a \in DOMAIN loanAgreements :
            LET ag == loanAgreements[a]
            IN /\ \A c \in Users, r \in ModificationRequests :
                    requestPaymentModificationError(c, a, r[1], r[2]) = "" =>
                        /\ c = ag.borrower
                        /\ ag.status \in {Active, Overdue}
                        /\ r[2] > 0
                        /\ r[1] = DueDateExtension => r[2] > ag.dueDate
               /\ ag.status = PendingModificationApproval =>
                    /\ handleP2PDefaultError(a) # ""
                    /\ \A c \in Users :
                        /\ \A p \in PaymentAmounts : repayLoanError(c, a, p) # ""
                        /\ \A r \in ModificationRequests :
                                requestPaymentModificationError(c, a, r[1], r[2]) # "")
    /\ [][/\ \A c \in Users, a \in AgreementIds, r \in ModificationRequests :
                requestPaymentModification(c, a, r[1], r[2]) =>
                    /\ loanAgreements'[a].status = PendingModificationApproval
                    /\ ~loanAgreements'[a].modificationApprovedByLender
                    /\ loanAgreements'[a].requestedModificationType = r[1]
                    /\ loanAgreements'[a].requestedModificationValue = r[2]
          /\ \A a \in DOMAIN loanAgreements :
                (/\ loanAgreements[a].status = PendingModificationApproval
                 /\ loanAgreements'[a] # loanAgreements[a])
                => \E ok \in BOOLEAN :
                        respondToPaymentModification(loanAgreements[a].lender, a, ok)]_vars

\* C34 witness: the borrower of an agreement that is past its due date and
\* partly paid has asked for a partial payment agreement, which is pending.
C34_Witness ==
    \E a \in DOMAIN loanAgreements :
        /\ loanAgreements[a].status = PendingModificationApproval
        /\ loanAgreements[a].requestedModificationType = PartialPaymentAgreement
        /\ loanAgreements[a].amountPaid > 0
        /\ now > loanAgreements[a].dueDate

\* C35: repayments and request funding do not pass through P2PLending.  A repay
\* moves payment_amount of the loan token from borrower to lender and
\* fund_request moves the principal from lender to borrower, both leaving
\* P2PLending's balance of that token alone; so in a token no agreement uses as
\* collateral every user holds the minted amount, less open offers, plus
\* principal received less repayments made as borrower, plus repayments received
\* (exactly amount_paid) less principal lent as lender; and in every step
\* P2PLending's balances move exactly by the change of open offer principal
\* plus live collateral.
C35_FlowsBypassCustody ==
    /\ [](\A t \in Tokens :
            (\A i \in DOMAIN loanAgreements : loanAgreements[i].collateralToken # t)
            => \A u \in Users :
                balances[t][u] = InitialMint - OfferedBy(u, t) + OtherLoanFlows(u, t, 0))
    /\ [][/\ \A t \in Tokens :
                balances'[t][P2PLendingAddress] - balances[t][P2PLendingAddress]
                    = EscrowedInLending(t)' - EscrowedInLending(t)
          /\ \A c \in Users, a \in AgreementIds, p \in PaymentAmounts :
                repayLoan(c, a, p) =>
                    LET ag == loanAgreements[a]
                        back(t, u) == IF SettlesNow(a) /\ ag.collateralToken = t
                                         /\ u = ag.borrower
                                      THEN ag.collateralAmount ELSE 0
                    IN /\ loanAgreements'[a].amountPaid = ag.amountPaid + p
                       /\ balances'[ag.loanToken][ag.lender]
                            = balances[ag.loanToken][ag.lender] + p
                                + back(ag.loanToken, ag.lender)
                       /\ balances'[ag.loanToken][ag.borrower]
                            = balances[ag.loanToken][ag.borrower] - p
                                + back(ag.loanToken, ag.borrower)
          /\ \A c \in Users, r \in ListingIds :
                fundLoanRequest(c, r) =>
                    LET request == loanRequests[r]
                        posted(t, u) == IF request.collateralToken = t /\ u = request.borrower
                                        THEN request.offeredCollateralAmount ELSE 0
                    IN /\ balances'[request.token][c]
                            = balances[request.token][c] - request.amount
                       /\ balances'[request.token][request.borrower]
                            = balances[request.token][request.borrower] + request.amount
                                - posted(request.token, request.borrower)
                       /\ balances'[request.token][P2PLendingAddress]
                            = balances[request.token][P2PLendingAddress]
                                + posted(request.token, request.borrower)]_vars

\* C35 witness: alice has funded bob's collateralized request and bob has paid
\* part of it back; alice holds the minted amount less the principal plus what
\* was paid, and P2PLending holds none of the loan token.
C35_Witness ==
    \E a \in DOMAIN loanAgreements :
        LET ag == loanAgreements[a] IN
        /\ ag.originalRequestId # 0
        /\ ag.collateralAmount > 0
        /\ ag.amountPaid > 0
        /\ ag.amountPaid < TotalDueOf(ag)
        /\ balances[ag.loanToken][ag.lender]
                = InitialMint - ag.principalAmount + ag.amountPaid
        /\ balances[ag.loanToken][P2PLendingAddress] = 0

\* the number of agreements in one of the statuses S in which u has the role
\* (the field "borrower" or "lender")
AgreementCount(u, role, S) ==
    Cardinality({a \in DOMAIN loanAgreements :
                    loanAgreements[a][role] = u /\ loanAgreements[a].status \in S})

\* C36: each agreement is reported to Reputation once, when it becomes Repaid or
\* Defaulted: every user's loans_taken is the number of their agreements as
\* borrower that are Repaid or Defaulted, their loans_defaulted the number that
\* are Defaulted, and their loans_given the number of their agreements as lender
\* that are Repaid.
C36_ReportedOncePerAgreement ==
    \A u \in Users :
        /\ userReputations[u].loansTaken
                = AgreementCount(u, "borrower", {Repaid, Defaulted})
        /\ userReputations[u].loansDefaulted = AgreementCount(u, "borrower", {Defaulted})
        /\ userReputations[u].loansGiven = AgreementCount(u, "lender", {Repaid})

\* C36 witness: a loan repaid after its due date has been counted once for the
\* borrower and once for the lender, and time has moved on.
C36_Witness ==
    \E a \in DOMAIN loanAgreements :
        LET ag == loanAgreements[a] IN
        /\ ag.status = Repaid
        /\ userReputations[ag.borrower].loansTaken = 1
        /\ userReputations[ag.borrower].loansRepaidLateGrace = 1
        /\ userReputations[ag.lender].loansGiven = 1
        /\ now = MaxTime

\* C37: remove_vouch goes through for every active vouch, whether or not the
\* borrower has agreements in a live status, and a default leaves every vouch
\* for the borrower that is inactive when it runs as it is: the slot keeps its
\* stake, and the voucher keeps their score and their total stake.
C37_RemovedVouchNotSlashed ==
    /\ [](\A v \in Users, b \in Users :
            activeVouches[v][b].isActive => removeVouchError(v, b) = "")
    /\ [][\A a \in DOMAIN loanAgreements : DefaultsNow(a) =>
            \A v \in Users \ {loanAgreements[a].borrower} :
                ~activeVouches[v][loanAgreements[a].borrower].isActive =>
                    /\ activeVouches'[v] = activeVouches[v]
                    /\ userReputations'[v].currentReputationScore
                            = userReputations[v].currentReputationScore
                    /\ userReputations'[v].vouchingStakeAmount
                            = userReputations[v].vouchingStakeAmount]_vars

\* C37 witness: a default has just gone through for a borrower in whose history
\* there is a vouch that was withdrawn while the agreement was live: its slot is
\* inactive with the whole stake, the voucher's score is untouched.
C37_Witness ==
    \E a \in DOMAIN loanAgreements :
        LET ag == loanAgreements[a] IN
        /\ ag.status = Defaulted
        /\ events # <<>> /\ events[1] = LoanAgreementDefaulted(a)
        /\ \E i \in DOMAIN userVouchesReceived[ag.borrower] :
            LET v == userVouchesReceived[ag.borrower][i].voucher IN
            /\ ~activeVouches[v][ag.borrower].isActive
            /\ activeVouches[v][ag.borrower].stakedAmount = BigStake
            /\ userReputations[v].currentReputationScore = 0
            /\ userReputations[v].vouchingStakeAmount = 0

\* C38: the arithmetic of total_due and of the slash amount never aborts on
\* overflow: for every agreement that has been formed, no repayment and no
\* default (with the slashing of the vouches that have been added) ends in the
\* panic of a checked multiplication or addition.
C38_ArithmeticNeverAborts ==
    \A a \in DOMAIN loanAgreements :
        /\ handleP2PDefaultError(a) # ArithmeticOverflow
        /\ \A p \in PaymentAmounts :
            repayLoanError(loanAgreements[a].borrower, a, p) # ArithmeticOverflow

====
